---- MODULE Spec2Model ----
(***************************************************************************)
(* A model of stock-analyzer-tool: the candlestick predicates and the      *)
(* pattern recognizer (src/stockana/candlestick_pattern.py), the ticker    *)
(* registry (src/store/companies.py) and the indicator engine              *)
(* (src/stockana/calc_advance_indicator.py).                               *)
(*                                                                         *)
(* Prices and volumes are integers.  Every comparison of the source that   *)
(* involves a fraction (x * 0.1, x / 2, x / 3) is cross-multiplied, so    *)
(* it is decided exactly as the source decides it on integer inputs.       *)
(* Positions are 0-based as in the source; Row(t, i) reads row i.          *)
(***************************************************************************)
EXTENDS Integers, Sequences, FiniteSets, TLC

VARIABLES
    data,      \* the table a call works on (PatternRecognizer.data, stock_data): [columns, rows]
    call,      \* the last call made and its outcome
    args,      \* the other arguments of the call
    cls,       \* CompaniesStore's class attributes: _store and _store_lock
    heap,      \* the CompaniesStore instances created so far
    th         \* the threads that use the registry

vars == <<data, call, args, cls, heap, th>>

tableVars == <<data, call, args>>

storeVars == <<cls, heap, th>>

----------------------------------------------------------------------------
(* Helpers *)

Abs(x) == IF x < 0 THEN -x ELSE x

Max2(a, b) == IF a >= b THEN a ELSE b

Min2(a, b) == IF a <= b THEN a ELSE b

None == "None"

OHLC == {"Open", "Close", "High", "Low"}

OHLCV == {"Open", "Close", "High", "Low", "Volume"}

\* A bar is a function from the field names it holds to their values:
\* `key in day` of the source is  key \in DOMAIN day.
Bar(o, h, l, c, v) == [Open |-> o, High |-> h, Low |-> l, Close |-> c, Volume |-> v]

\* The bar restricted to the fields in keep (a dict / row that lacks the others).
Restrict(bar, keep) == [k \in (DOMAIN bar) \cap keep |-> bar[k]]

----------------------------------------------------------------------------
(* PatternDefinitions *)

DojiThresholdNum == 1
DojiThresholdDen == 10

valid_candle(day) == OHLC \subseteq DOMAIN day

valid_candle_with_volume(day) == OHLCV \subseteq DOMAIN day

\* day['Volume'] > prev_day['Volume'], with no guard: a missing key raises KeyError.
is_volume_increasing_raises(day, prev_day) ==
    ~("Volume" \in DOMAIN day /\ "Volume" \in DOMAIN prev_day)

\* A comparison that also accepts equal volumes, which the code does not make.
is_volume_not_decreasing(day, prev_day) == day.Volume >= prev_day.Volume

is_volume_increasing(day, prev_day) == day.Volume > prev_day.Volume

is_bullish(open_price, close_price) == close_price > open_price

is_bearish(open_price, close_price) == close_price < open_price

is_doji(day) ==
    IF ~valid_candle(day) THEN FALSE
    ELSE Abs(day.Open - day.Close) * DojiThresholdDen
            <= (day.High - day.Low) * DojiThresholdNum

is_long_legged(day) ==
    IF ~valid_candle(day) THEN FALSE
    ELSE LET body_size == Abs(day.Open - day.Close)
             total_range == day.High - day.Low
         IN  body_size * DojiThresholdDen <= total_range * DojiThresholdNum

is_gravestone(day) ==
    IF ~valid_candle(day) THEN FALSE
    ELSE LET body_size == Abs(day.Open - day.Close)
             upper_shadow == day.High - Max2(day.Open, day.Close)
         IN  /\ body_size * DojiThresholdDen <= (day.High - day.Low) * DojiThresholdNum
             /\ upper_shadow >= body_size

is_dragonfly(day) ==
    IF ~valid_candle(day) THEN FALSE
    ELSE LET body_size == Abs(day.Open - day.Close)
             lower_shadow == Min2(day.Open, day.Close) - day.Low
         IN  /\ body_size * DojiThresholdDen <= (day.High - day.Low) * DojiThresholdNum
             /\ lower_shadow >= body_size

is_hammer(day, is_downtrend, hammer_upper_shadow_multiplier) ==
    IF ~valid_candle(day) \/ ~is_downtrend THEN FALSE
    ELSE LET body == Abs(day.Close - day.Open)
             lower_shadow == Min2(day.Open, day.Close) - day.Low
             upper_shadow == day.High - Max2(day.Open, day.Close)
         IN  /\ lower_shadow >= 2 * body
             /\ upper_shadow <= body * hammer_upper_shadow_multiplier

is_inverse_hammer(day) ==
    IF ~valid_candle(day) THEN FALSE
    ELSE LET body == Abs(day.Close - day.Open)
             upper_shadow == day.High - Max2(day.Open, day.Close)
             lower_shadow == Min2(day.Open, day.Close) - day.Low
             total_length == day.High - day.Low
         IN  /\ upper_shadow >= 2 * body
             /\ body * 3 < total_length
             /\ lower_shadow < body

is_bullish_engulfing(day, prev_day) ==
    IF ~({"Open", "Close"} \subseteq DOMAIN day /\ {"Open", "Close"} \subseteq DOMAIN prev_day)
    THEN FALSE
    ELSE /\ is_bullish(day.Open, day.Close)
         /\ is_bearish(prev_day.Open, prev_day.Close)
         /\ day.Open < prev_day.Close
         /\ day.Close > prev_day.Open

is_piercing_line(day, prev_day) ==
    IF ~(OHLC \subseteq DOMAIN day /\ OHLC \subseteq DOMAIN prev_day)
    THEN FALSE
    ELSE /\ is_bearish(prev_day.Open, prev_day.Close)
         /\ is_bullish(day.Open, day.Close)
         /\ day.Open < prev_day.Close
         /\ day.Close * 2 > prev_day.Open + prev_day.Close

is_bearish_engulfing(day, prev_day) ==
    IF ~({"Open", "Close"} \subseteq DOMAIN day /\ {"Open", "Close"} \subseteq DOMAIN prev_day)
    THEN FALSE
    ELSE /\ is_bearish(day.Open, day.Close)
         /\ is_bullish(prev_day.Open, prev_day.Close)
         /\ day.Open > prev_day.Close
         /\ day.Close < prev_day.Open

is_dark_cloud_cover(day, prev_day) ==
    IF ~({"Open", "Close"} \subseteq DOMAIN day /\ {"Open", "Close"} \subseteq DOMAIN prev_day)
    THEN FALSE
    ELSE /\ is_bullish(prev_day.Open, prev_day.Close)
         /\ is_bearish(day.Open, day.Close)
         /\ day.Open > prev_day.Close
         /\ day.Close * 2 < prev_day.Open + prev_day.Close

is_hanging_man(day, prev_day, is_uptrend) ==
    IF ~(OHLC \subseteq DOMAIN day /\ OHLC \subseteq DOMAIN prev_day) \/ ~is_uptrend
    THEN FALSE
    ELSE /\ is_hammer(day, is_uptrend, 3)
         /\ day.Open < prev_day.Close

is_shooting_star(day, prev_day, is_uptrend) ==
    IF ~(OHLC \subseteq DOMAIN day /\ OHLC \subseteq DOMAIN prev_day) \/ ~is_uptrend
    THEN FALSE
    ELSE LET body == Abs(day.Close - day.Open)
             upper_shadow == day.High - Max2(day.Open, day.Close)
         IN  /\ upper_shadow >= 2 * body
             /\ body * 2 < day.High - day.Low

\* A window handed to a three-candle predicate: a list of bars (as the unit
\* tests build it) or a DataFrame slice (as recognize_patterns builds it with
\* data.iloc[i - 2:i + 1]).  len() of a frame counts its rows, but iterating a
\* frame yields its column labels, and `key in label` is then Python's
\* substring test on the label.
ListWindow(items) == [kind |-> "list", items |-> items]

FrameWindow(columns, rows) == [kind |-> "frame", columns |-> columns, rows |-> rows]

WindowLen(days) == IF days.kind = "list" THEN Len(days.items) ELSE Len(days.rows)

\* `key in label` for two strings.  No label among Open, High, Low, Close,
\* Volume, Pattern contains another one, so on these labels it is equality.
IsSubstring(key, label) == key = label

\* all(all(key in day for key in keys) for day in days)
window_has_keys(days, keys) ==
    IF days.kind = "list"
    THEN \A k \in 1..Len(days.items) : keys \subseteq DOMAIN days.items[k]
    ELSE \A label \in days.columns : \A key \in keys : IsSubstring(key, label)

\* days[0] on a frame that passed the guards looks up a column labelled 0: KeyError.
window_index_raises(days, keys) ==
    days.kind = "frame" /\ WindowLen(days) = 3 /\ window_has_keys(days, keys)

is_morning_star(days) ==
    IF WindowLen(days) # 3 THEN FALSE
    ELSE IF ~window_has_keys(days, OHLC) THEN FALSE
    ELSE LET first_candle == days.items[1]
             second_candle == days.items[2]
             third_candle == days.items[3]
             is_first_bearish == is_bearish(first_candle.Open, first_candle.Close)
             is_third_bullish == is_bullish(third_candle.Open, third_candle.Close)
             is_second_doji == is_doji(second_candle)
             is_second_small_body ==
                 Abs(second_candle.Open - second_candle.Close) * 10
                     <= (first_candle.High - first_candle.Low)
             is_third_closing_in_first_body ==
                 third_candle.Close * 2 >= first_candle.Open + first_candle.Close
         IN  /\ is_first_bearish
             /\ (is_second_doji \/ is_second_small_body)
             /\ is_third_bullish
             /\ is_third_closing_in_first_body

is_three_white_soldiers(days) ==
    IF WindowLen(days) # 3 THEN FALSE
    ELSE IF ~window_has_keys(days, {"Open", "Close"}) THEN FALSE
    ELSE /\ \A k \in 1..3 : is_bullish(days.items[k].Open, days.items[k].Close)
         /\ days.items[1].Close < days.items[2].Open
         /\ days.items[2].Open < days.items[2].Close
         /\ days.items[2].Close < days.items[3].Open

is_evening_star(days) ==
    IF WindowLen(days) # 3 THEN FALSE
    ELSE IF ~window_has_keys(days, {"Open", "Close"}) THEN FALSE
    ELSE /\ is_bullish(days.items[1].Open, days.items[1].Close)
         /\ Min2(days.items[2].Open, days.items[2].Close) < days.items[1].Close
         /\ is_bearish(days.items[3].Open, days.items[3].Close)
         /\ days.items[3].Close < days.items[2].Close

is_three_black_crows(days) ==
    IF WindowLen(days) # 3 THEN FALSE
    ELSE IF ~window_has_keys(days, {"Open", "Close"}) THEN FALSE
    ELSE /\ \A k \in 1..3 : is_bearish(days.items[k].Open, days.items[k].Close)
         /\ days.items[1].Open > days.items[2].Open
         /\ days.items[2].Open > days.items[3].Open

is_engulfing_with_volume(day, prev_day, pattern_type) ==
    IF ~valid_candle_with_volume(day) \/ ~valid_candle_with_volume(prev_day) THEN FALSE
    ELSE LET is_engulfing == IF pattern_type = "bullish"
                             THEN is_bullish_engulfing(day, prev_day)
                             ELSE is_bearish_engulfing(day, prev_day)
         IN  is_engulfing /\ is_volume_increasing(day, prev_day)

is_doji_with_volume(day, prev_day, doji_type) ==
    IF ~valid_candle_with_volume(day) \/ ~valid_candle_with_volume(prev_day) THEN FALSE
    ELSE LET is_doji_type ==
                 IF doji_type = "standard" THEN is_doji(day)
                 ELSE IF doji_type = "long_legged" THEN is_long_legged(day)
                 ELSE IF doji_type = "gravestone" THEN is_gravestone(day)
                 ELSE IF doji_type = "dragonfly" THEN is_dragonfly(day)
                 ELSE FALSE
         IN  is_doji_type /\ is_volume_increasing(day, prev_day)

is_hammer_with_volume(day, prev_day, is_downtrend, hammer_upper_shadow_multiplier) ==
    IF \/ ~valid_candle_with_volume(day)
       \/ ~valid_candle_with_volume(prev_day)
       \/ ~is_downtrend
    THEN FALSE
    ELSE /\ is_hammer(day, is_downtrend, hammer_upper_shadow_multiplier)
         /\ is_volume_increasing(day, prev_day)

is_shooting_star_with_volume(day, prev_day, is_uptrend) ==
    IF \/ ~valid_candle_with_volume(day)
       \/ ~valid_candle_with_volume(prev_day)
       \/ ~is_uptrend
    THEN FALSE
    ELSE /\ is_shooting_star(day, prev_day, is_uptrend)
         /\ is_volume_increasing(day, prev_day)

----------------------------------------------------------------------------
(* PatternRecognizer *)

DefaultLookback == 5

NumRows(d) == Len(d.rows)

\* data.iloc[i]
Row(d, i) == d.rows[i + 1]

\* s[a:b] of a sequence, for 0 <= a: the positions a .. min(b, len) - 1.
Slice(s, a, b) == SubSeq(s, a + 1, Min2(b, Len(s)))

\* data['Close'] raises KeyError when the table has no Close column.
close_column_raises(d) == "Close" \notin d.columns

close_column(d) == [k \in 1..NumRows(d) |-> d.rows[k].Close]

\* pandas' Series.is_monotonic_decreasing / is_monotonic_increasing:
\* each value <= (>=) the one before it; equal neighbours are allowed.
is_monotonic_decreasing(s) == \A k \in 1..(Len(s) - 1) : s[k] >= s[k + 1]

is_monotonic_increasing(s) == \A k \in 1..(Len(s) - 1) : s[k] <= s[k + 1]

trend_raises(d, index, lookback_period) ==
    index >= lookback_period /\ close_column_raises(d)

is_downtrend(d, index, lookback_period) ==
    IF index < lookback_period THEN FALSE
    ELSE is_monotonic_decreasing(Slice(close_column(d), index - lookback_period, index))

is_uptrend(d, index, lookback_period) ==
    IF index < lookback_period THEN FALSE
    ELSE is_monotonic_increasing(Slice(close_column(d), index - lookback_period, index))

\* The bar with field f set to v (data['Pattern'] = ..., data.at[i, 'Pattern'] = ...).
SetField(bar, f, v) == [k \in (DOMAIN bar) \cup {f} |-> IF k = f THEN v ELSE bar[k]]

KeyError == "KeyError"

\* The sixteen labels of the if/elif chain, in the order the chain tests them.
Precedence ==
    << "Bullish Engulfing", "Bearish Engulfing", "Morning Star", "Evening Star",
       "Hammer", "Inverse Hammer", "Hanging Man", "Shooting Star",
       "Three White Soldiers", "Three Black Crows", "Dark Cloud Cover",
       "Bullish Engulfing with Volume", "Bearish Engulfing with Volume",
       "Doji with Volume", "Hammer with Volume", "Shooting Star with Volume" >>

\* data.iloc[i - 2:i + 1], for i >= 2
window_at(d, i) == FrameWindow(d.columns, SubSeq(d.rows, Max2(i - 1, 1), i + 1))

\* Whether the k-th predicate of the chain holds at position i, on the
\* arguments recognize_patterns hands it.
Holds(k, d, i) ==
    LET day == Row(d, i)
        prev_day == Row(d, i - 1)
        days == window_at(d, i)
    IN  CASE k = 1 -> is_bullish_engulfing(day, prev_day)
          [] k = 2 -> is_bearish_engulfing(day, prev_day)
          [] k = 3 -> is_morning_star(days)
          [] k = 4 -> is_evening_star(days)
          [] k = 5 -> is_hammer(day, is_downtrend(d, i, DefaultLookback), 1)
          [] k = 6 -> is_inverse_hammer(day)
          [] k = 7 -> is_hanging_man(day, prev_day, is_uptrend(d, i, DefaultLookback))
          [] k = 8 -> is_shooting_star(day, prev_day, is_uptrend(d, i, DefaultLookback))
          [] k = 9 -> is_three_white_soldiers(days)
          [] k = 10 -> is_three_black_crows(days)
          [] k = 11 -> is_dark_cloud_cover(day, prev_day)
          [] k = 12 -> is_engulfing_with_volume(day, prev_day, "bullish")
          [] k = 13 -> is_engulfing_with_volume(day, prev_day, "bearish")
          [] k = 14 -> is_doji_with_volume(day, prev_day, "standard")
          [] k = 15 -> is_hammer_with_volume(day, prev_day,
                                             is_downtrend(d, i, DefaultLookback), 1)
          [] k = 16 -> is_shooting_star_with_volume(day, prev_day,
                                                    is_uptrend(d, i, DefaultLookback))

\* A chain written with `if` in place of `elif`: every predicate that holds
\* overwrites the label, so the last one wins.
pattern_at_last_match(d, i) ==
    IF trend_raises(d, i, DefaultLookback) THEN KeyError
    ELSE LET matching == {k \in 1..Len(Precedence) : Holds(k, d, i)}
         IN  IF matching = {} THEN None
             ELSE Precedence[CHOOSE k \in matching : \A j \in matching : j <= k]

\* A chain with a branch for is_piercing_line, which the code does not have.
pattern_at_with_piercing_line(d, i) ==
    IF trend_raises(d, i, DefaultLookback) THEN KeyError
    ELSE IF is_piercing_line(Row(d, i), Row(d, i - 1)) THEN "Piercing Line"
    ELSE pattern_at_last_match(d, i)

\* One pass of the loop body for position i on table d: the label the if/elif
\* chain assigns, None when no branch is taken, KeyError when an argument of
\* the chain raises before a branch is taken.
pattern_at(d, i) ==
    LET day == Row(d, i)
        prev_day == Row(d, i - 1)
        days == window_at(d, i)
    IN  IF is_bullish_engulfing(day, prev_day) THEN "Bullish Engulfing"
        ELSE IF is_bearish_engulfing(day, prev_day) THEN "Bearish Engulfing"
        ELSE IF window_index_raises(days, OHLC) THEN KeyError
        ELSE IF is_morning_star(days) THEN "Morning Star"
        ELSE IF window_index_raises(days, {"Open", "Close"}) THEN KeyError
        ELSE IF is_evening_star(days) THEN "Evening Star"
        ELSE IF trend_raises(d, i, DefaultLookback) THEN KeyError
        ELSE IF is_hammer(day, is_downtrend(d, i, DefaultLookback), 1) THEN "Hammer"
        ELSE IF is_inverse_hammer(day) THEN "Inverse Hammer"
        ELSE IF is_hanging_man(day, prev_day, is_uptrend(d, i, DefaultLookback))
             THEN "Hanging Man"
        ELSE IF is_shooting_star(day, prev_day, is_uptrend(d, i, DefaultLookback))
             THEN "Shooting Star"
        ELSE IF is_three_white_soldiers(days) THEN "Three White Soldiers"
        ELSE IF is_three_black_crows(days) THEN "Three Black Crows"
        ELSE IF is_dark_cloud_cover(day, prev_day) THEN "Dark Cloud Cover"
        ELSE IF is_engulfing_with_volume(day, prev_day, "bullish")
             THEN "Bullish Engulfing with Volume"
        ELSE IF is_engulfing_with_volume(day, prev_day, "bearish")
             THEN "Bearish Engulfing with Volume"
        ELSE IF is_doji_with_volume(day, prev_day, "standard") THEN "Doji with Volume"
        ELSE IF is_hammer_with_volume(day, prev_day, is_downtrend(d, i, DefaultLookback), 1)
             THEN "Hammer with Volume"
        ELSE IF is_shooting_star_with_volume(day, prev_day,
                                             is_uptrend(d, i, DefaultLookback))
             THEN "Shooting Star with Volume"
        ELSE None

\* self.data['Pattern'] = None
with_pattern_column(d) ==
    [columns |-> d.columns \cup {"Pattern"},
     rows |-> [k \in 1..NumRows(d) |-> SetField(d.rows[k], "Pattern", None)]]

\* The loop of recognize_patterns run from position `first` on table d: the
\* table it leaves behind and whether it raised.  It stops at the first
\* position whose chain raises; the positions before it keep their labels.
recognize_from(d, first) ==
    LET d0 == with_pattern_column(d)
        n == NumRows(d)
        labels == [i \in first..(n - 1) |-> pattern_at(d0, i)]
        raising == {i \in first..(n - 1) : labels[i] = KeyError}
        stop == IF raising = {} THEN n
                ELSE CHOOSE i \in raising : \A j \in raising : i <= j
    IN  [data |-> [columns |-> d0.columns,
                   rows |-> [k \in 1..n |->
                               IF k - 1 >= first /\ k - 1 < stop
                               THEN SetField(d0.rows[k], "Pattern", labels[k - 1])
                               ELSE d0.rows[k]]],
         raised |-> stop < n]

\* A loop that starts at position 1: range(1, len(self.data)).
recognize_result_from_one(d) == recognize_from(d, 1)

\* for i in range(2, len(self.data))
recognize_result(d) == recognize_from(d, 2)

----------------------------------------------------------------------------
(* The tables handed to the recognizer *)

MaxPrice == 4
MaxVolume == 2
MaxHistoryClose == 2
MaxLen == 6

Prices == 0..MaxPrice

\* Well-formed bars on the price grid: High >= max(Open, Close), Low <= min(Open, Close).
DayBars ==
    {b \in {Bar(o, h, l, c, v) : o \in Prices, h \in Prices, l \in Prices,
                                 c \in Prices, v \in 1..MaxVolume} :
        b.High >= Max2(b.Open, b.Close) /\ b.Low <= Min2(b.Open, b.Close)}

\* Bars without shadows: High and Low are the ends of the body.
BodyBars == {Bar(o, Max2(o, c), Min2(o, c), c, 1) : o \in Prices, c \in Prices}

FlatBar(c) == Bar(c, c, c, c, 1)

RECURSIVE FlatHistories(_, _)
FlatHistories(n, closes) ==
    IF n = 0 THEN {<<>>}
    ELSE {Append(h, FlatBar(c)) : h \in FlatHistories(n - 1, closes), c \in closes}

MakeTable(columns, rows) ==
    [columns |-> columns, rows |-> [k \in 1..Len(rows) |-> Restrict(rows[k], columns)]]

\* Tables of the repository's tests and of the end-to-end scenario
\* (tests/test_candlestick_pattern.py), as rows of (Open, High, Low, Close, Volume).
ScenarioRows == << Bar(100, 105, 95, 98, 0), Bar(97, 110, 96, 109, 0) >>

MorningStarTestRows ==
    << Bar(102, 106, 99, 104, 800), Bar(103, 107, 102, 105, 900),
       Bar(100, 105, 95, 96, 1000), Bar(98, 102, 94, 98, 500),
       Bar(99, 103, 98, 102, 1500) >>

HammerTestRows ==
    << Bar(102, 103, 97, 101, 900), Bar(101, 102, 96, 100, 950),
       Bar(100, 101, 95, 99, 1000), Bar(98, 99, 93, 97, 1050),
       Bar(95, 96, 90, 94, 1100), Bar(92, 93, 87, 91, 1150),
       Bar(89, 91, 80, 90, 1200) >>

TestTables == {ScenarioRows, MorningStarTestRows, HammerTestRows}

NoCall == [op |-> "none"]

NoArgs == [day |-> <<>>]

NoData == [columns |-> {}, rows |-> <<>>]

\* The registry is not part of the calls on tables.
StoreUnused ==
    /\ cls = [store |-> 0, lock |-> 0]
    /\ heap = <<>>
    /\ th = <<>>

\* The tables the recognizer is constructed with:
\*   - the tests' tables;
\*   - short tables: up to one flat bar, then a body bar, then any bar;
\*   - trend tables: DefaultLookback flat bars, then any bar;
\*   - window tables: a body bar, a flat bar, a body bar;
\*   - tables that lack one column: flat bars, then two body bars.
SomeRecognizerTable(Chosen(_)) ==
    \/ \E rows \in TestTables : Chosen(MakeTable(OHLCV, rows))
    \/ Chosen(MakeTable(OHLCV, <<>>))
    \/ \E b \in DayBars : Chosen(MakeTable(OHLCV, <<b>>))
    \/ \E prefix \in {<<>>, <<FlatBar(1)>>} : \E p \in BodyBars : \E b \in DayBars :
          Chosen(MakeTable(OHLCV, prefix \o <<p, b>>))
    \/ \E h \in FlatHistories(DefaultLookback, 1..MaxHistoryClose) : \E b \in DayBars :
          Chosen(MakeTable(OHLCV, Append(h, b)))
    \/ \E f \in BodyBars : \E m \in Prices : \E b \in BodyBars :
          Chosen(MakeTable(OHLCV, <<f, FlatBar(m), b>>))
    \/ \E n \in 0..(MaxLen - 2) : \E h \in FlatHistories(n, {1}) :
       \E p \in BodyBars : \E b \in BodyBars : \E missing \in OHLCV :
          Chosen(MakeTable(OHLCV \ {missing}, h \o <<p, b>>))

InitRecognizer ==
    /\ SomeRecognizerTable(LAMBDA d : data = d)
    /\ call = NoCall
    /\ args = NoArgs
    /\ StoreUnused

\* The runs of recognize_patterns on one table.
MaxRuns == 2

\* recognize_patterns(), on the table as the run before left it.
recognize_patterns ==
    /\ IF call.op = "none" THEN TRUE ELSE call.runs < MaxRuns
    /\ LET r == recognize_result(data)
       IN  /\ data' = r.data
           /\ call' = [op |-> "recognize_patterns",
                       outcome |-> IF r.raised THEN KeyError ELSE "returned",
                       runs |-> IF call.op = "none" THEN 1 ELSE call.runs + 1]
    /\ UNCHANGED <<args, storeVars>>

NextRecognizer == recognize_patterns

SpecRecognizer == InitRecognizer /\ [][NextRecognizer]_vars

----------------------------------------------------------------------------
(* Properties of the recognizer *)

Returned == call.op = "recognize_patterns" /\ call.outcome = "returned"

LabelAt(i) == Row(data, i).Pattern

\* The label of the first predicate of Precedence that holds at position i.
FirstMatch(d, i) ==
    LET matching == {k \in 1..Len(Precedence) : Holds(k, d, i)}
    IN  IF matching = {} THEN None
        ELSE Precedence[CHOOSE k \in matching : \A j \in matching : k <= j]

C2_FirstTwoUnlabeled ==
    call.op = "recognize_patterns" =>
        \A i \in 0..1 : i < NumRows(data) => LabelAt(i) = None

\* C2 witness: recognition has run on a table whose bar 1 engulfs bar 0, so a
\* predicate of the chain holds at position 1, and position 1 is unlabeled.
C2_Witness ==
    /\ Returned
    /\ NumRows(data) >= 2
    /\ is_bullish_engulfing(Row(data, 1), Row(data, 0))
    /\ LabelAt(1) = None

\* C3 (as claimed): every position whose bar and the bar before it satisfy
\* the bullish-engulfing predicate is labelled 'Bullish Engulfing', position 1
\* of a two-bar table included.
C3_EngulfingLabelledEverywhere ==
    Returned =>
        \A i \in 1..(NumRows(data) - 1) :
            is_bullish_engulfing(Row(data, i), Row(data, i - 1))
                => LabelAt(i) = "Bullish Engulfing"

\* The three bars i-2 .. i as a list of bars.
BarsAt(d, i) == ListWindow(<<Row(d, i - 2), Row(d, i - 1), Row(d, i)>>)

\* C4 (as claimed): a position i >= 2 whose three bars i-2 .. i have the
\* Morning Star geometry, and at which neither engulfing pattern holds, is
\* labelled 'Morning Star'.
C4_MorningStarLabelled ==
    Returned =>
        \A i \in 2..(NumRows(data) - 1) :
            ( /\ is_morning_star(BarsAt(data, i))
              /\ ~is_bullish_engulfing(Row(data, i), Row(data, i - 1))
              /\ ~is_bearish_engulfing(Row(data, i), Row(data, i - 1)) )
                => LabelAt(i) = "Morning Star"

\* C7 (as claimed): on a table that lacks an Open, High, Low or Close column
\* recognize_patterns runs to completion without raising.
C7_MalformedTableCompletes ==
    (call.op = "recognize_patterns" /\ ~(OHLC \subseteq data.columns))
        => call.outcome = "returned"

----------------------------------------------------------------------------
(* Calls of is_downtrend / is_uptrend *)

MaxClose == 3
MaxTrendLen == 4
MaxLookback == 3

Outcome(b) == IF b THEN "True" ELSE "False"

\* Tables of flat bars with every choice of closes, with or without a Close column.
InitTrend ==
    /\ \E n \in 0..MaxTrendLen : \E h \in FlatHistories(n, 1..MaxClose) :
       \E columns \in {OHLCV, OHLCV \ {"Close"}} :
          data = MakeTable(columns, h)
    /\ call = NoCall
    /\ args = NoArgs
    /\ StoreUnused

call_is_downtrend ==
    /\ call.op = "none"
    /\ \E index \in 0..NumRows(data) : \E lookback_period \in 1..MaxLookback :
          call' = [op |-> "is_downtrend", index |-> index,
                   lookback_period |-> lookback_period,
                   outcome |-> IF trend_raises(data, index, lookback_period)
                               THEN KeyError
                               ELSE Outcome(is_downtrend(data, index, lookback_period))]
    /\ UNCHANGED <<data, args, storeVars>>

call_is_uptrend ==
    /\ call.op = "none"
    /\ \E index \in 0..NumRows(data) : \E lookback_period \in 1..MaxLookback :
          call' = [op |-> "is_uptrend", index |-> index,
                   lookback_period |-> lookback_period,
                   outcome |-> IF trend_raises(data, index, lookback_period)
                               THEN KeyError
                               ELSE Outcome(is_uptrend(data, index, lookback_period))]
    /\ UNCHANGED <<data, args, storeVars>>

NextTrend == call_is_downtrend \/ call_is_uptrend

SpecTrend == InitTrend /\ [][NextTrend]_vars

\* The Close values of the N bars before position i, oldest first.
ClosesBefore(d, i, N) == [k \in 1..N |-> Row(d, i - N + k - 1).Close]

StrictlyDecreasing(s) == \A k \in 1..(Len(s) - 1) : s[k] > s[k + 1]

StrictlyIncreasing(s) == \A k \in 1..(Len(s) - 1) : s[k] < s[k + 1]

\* C5 (as claimed): is_downtrend(i, N) is true exactly when i >= N and the
\* Closes of the N bars i-N .. i-1 are strictly decreasing, and is_uptrend
\* exactly when they are strictly increasing.
C5_TrendIsStrict ==
    (call.op \in {"is_downtrend", "is_uptrend"} /\ "Close" \in data.columns) =>
        LET i == call.index
            N == call.lookback_period
        IN  (call.outcome = "True") <=>
               /\ i >= N
               /\ IF call.op = "is_downtrend"
                  THEN StrictlyDecreasing(ClosesBefore(data, i, N))
                  ELSE StrictlyIncreasing(ClosesBefore(data, i, N))

----------------------------------------------------------------------------
(* Calls of the predicates of PatternDefinitions on bars given as dicts *)

\* The bars of the unit tests (tests/test_candlestick_pattern.py), as
\* <<first, prev_day, day>>; a two-bar test repeats its prev_day as first.
PredicateCases ==
    { << Bar(100, 105, 99, 104, 0), Bar(105, 109, 103, 108, 0), Bar(109, 113, 107, 112, 0) >>,
      << Bar(100, 100, 95, 96, 0), Bar(96, 96, 90, 91, 0), Bar(91, 91, 85, 86, 0) >>,
      << Bar(100, 105, 95, 96, 1000), Bar(98, 102, 94, 98, 500), Bar(99, 103, 98, 102, 1500) >>,
      << Bar(100, 105, 95, 98, 1000), Bar(100, 105, 95, 98, 1000), Bar(97, 110, 96, 109, 1500) >>,
      << Bar(100, 105, 95, 102, 1000), Bar(100, 105, 95, 102, 1000), Bar(103, 106, 94, 96, 1500) >>,
      << Bar(100, 105, 100, 102, 1000), Bar(100, 105, 100, 102, 1000), Bar(102, 103, 101, 102, 1500) >>,
      << Bar(105, 110, 104, 106, 1000), Bar(105, 110, 104, 106, 1000), Bar(102, 103, 90, 100, 1500) >>,
      << Bar(95, 100, 94, 98, 1000), Bar(95, 100, 94, 98, 1000), Bar(99, 108, 98, 100, 1500) >> }

\* A dict holds every field or lacks exactly one.
FieldSets == {OHLCV} \cup {OHLCV \ {f} : f \in OHLCV}

InitPredicates ==
    /\ \E case \in PredicateCases : \E k1 \in FieldSets : \E k2 \in FieldSets :
       \E k3 \in FieldSets : \E trend \in BOOLEAN :
          args = [first |-> Restrict(case[1], k1),
                  prev_day |-> Restrict(case[2], k2),
                  day |-> Restrict(case[3], k3),
                  trend |-> trend]
    /\ call = NoCall
    /\ data = NoData
    /\ StoreUnused

OneBarPredicates ==
    {"is_doji", "is_long_legged", "is_gravestone", "is_dragonfly", "is_hammer",
     "is_inverse_hammer"}

TwoBarPredicates ==
    {"is_volume_increasing", "is_bullish_engulfing", "is_piercing_line",
     "is_hanging_man", "is_shooting_star", "is_bearish_engulfing",
     "is_dark_cloud_cover", "is_engulfing_with_volume", "is_doji_with_volume",
     "is_hammer_with_volume", "is_shooting_star_with_volume"}

WindowPredicates ==
    {"is_morning_star", "is_three_white_soldiers", "is_evening_star",
     "is_three_black_crows"}

PredicateNames == OneBarPredicates \cup TwoBarPredicates \cup WindowPredicates

\* The third argument of is_engulfing_with_volume / is_doji_with_volume.
Variants(name) ==
    IF name = "is_engulfing_with_volume" THEN {"bullish", "bearish"}
    ELSE IF name = "is_doji_with_volume"
         THEN {"standard", "long_legged", "gravestone", "dragonfly"}
    ELSE {"-"}

\* The value the predicate `name` returns on arguments a.
predicate_value(name, variant, a) ==
    LET day == a.day
        prev_day == a.prev_day
        days == ListWindow(<<a.first, a.prev_day, a.day>>)
    IN  CASE name = "is_doji" -> is_doji(day)
          [] name = "is_long_legged" -> is_long_legged(day)
          [] name = "is_gravestone" -> is_gravestone(day)
          [] name = "is_dragonfly" -> is_dragonfly(day)
          [] name = "is_hammer" -> is_hammer(day, a.trend, 1)
          [] name = "is_inverse_hammer" -> is_inverse_hammer(day)
          [] name = "is_volume_increasing" -> is_volume_increasing(day, prev_day)
          [] name = "is_bullish_engulfing" -> is_bullish_engulfing(day, prev_day)
          [] name = "is_piercing_line" -> is_piercing_line(day, prev_day)
          [] name = "is_hanging_man" -> is_hanging_man(day, prev_day, a.trend)
          [] name = "is_shooting_star" -> is_shooting_star(day, prev_day, a.trend)
          [] name = "is_bearish_engulfing" -> is_bearish_engulfing(day, prev_day)
          [] name = "is_dark_cloud_cover" -> is_dark_cloud_cover(day, prev_day)
          [] name = "is_engulfing_with_volume" ->
                is_engulfing_with_volume(day, prev_day, variant)
          [] name = "is_doji_with_volume" -> is_doji_with_volume(day, prev_day, variant)
          [] name = "is_hammer_with_volume" ->
                is_hammer_with_volume(day, prev_day, a.trend, 1)
          [] name = "is_shooting_star_with_volume" ->
                is_shooting_star_with_volume(day, prev_day, a.trend)
          [] name = "is_morning_star" -> is_morning_star(days)
          [] name = "is_three_white_soldiers" -> is_three_white_soldiers(days)
          [] name = "is_evening_star" -> is_evening_star(days)
          [] name = "is_three_black_crows" -> is_three_black_crows(days)

\* Whether the call raises: only is_volume_increasing reads a key unguarded.
predicate_raises(name, a) ==
    name = "is_volume_increasing" /\ is_volume_increasing_raises(a.day, a.prev_day)

call_predicate ==
    /\ call.op = "none"
    /\ \E name \in PredicateNames : \E variant \in Variants(name) :
          call' = [op |-> name, variant |-> variant,
                   outcome |-> IF predicate_raises(name, args) THEN KeyError
                               ELSE Outcome(predicate_value(name, variant, args))]
    /\ UNCHANGED <<data, args, storeVars>>

NextPredicates == call_predicate

SpecPredicates == InitPredicates /\ [][NextPredicates]_vars

\* The bars a predicate is handed.
BarsPassed(name, a) ==
    IF name \in OneBarPredicates THEN {a.day}
    ELSE IF name \in TwoBarPredicates THEN {a.day, a.prev_day}
    ELSE {a.first, a.prev_day, a.day}

\* The fields a predicate reads from its bars.
FieldsNeeded(name) ==
    IF name = "is_volume_increasing" THEN {"Volume"}
    ELSE IF name \in {"is_engulfing_with_volume", "is_doji_with_volume",
                      "is_hammer_with_volume", "is_shooting_star_with_volume"}
         THEN OHLCV
    ELSE IF name \in {"is_bullish_engulfing", "is_bearish_engulfing",
                      "is_dark_cloud_cover", "is_three_white_soldiers",
                      "is_evening_star", "is_three_black_crows"}
         THEN {"Open", "Close"}
    ELSE OHLC

\* C6 (as claimed): a predicate handed a bar that lacks a field the predicate
\* needs returns False and does not raise.
C6_PredicatesFailClosed ==
    (/\ call.op \in PredicateNames
     /\ \E b \in BarsPassed(call.op, args) : ~(FieldsNeeded(call.op) \subseteq DOMAIN b))
        => call.outcome = "False"

----------------------------------------------------------------------------
(* CompaniesStore: the registry of ticker symbols, used by several threads *)

MaxThreads == 2
MaxCalls == 3

Threads == 1..MaxThreads

Symbols == {"AAPL", "GOOG"}

\* A thread: where it is (pc), the registry its caller holds (store, 0 for
\* none yet), the object __new__ handed to __init__ (obj), the argument of the
\* add/remove in progress (stock_id), the set object that add loaded from
\* self._companies (loaded: its generation), the calls it has started.
IdleThread ==
    [pc |-> "idle", store |-> 0, obj |-> 0, stock_id |-> "", loaded |-> 0, calls |-> 0]

\* An instance fresh from object.__new__, with _is_initialized = False set by
\* CompaniesStore.__new__ and no _companies attribute yet.  Every
\* `self._companies = set()` binds a new set object: gen counts them.
NewInstance == [is_initialized |-> FALSE, companies |-> {}, gen |-> 0]

InitStore ==
    /\ cls = [store |-> 0, lock |-> 0]
    /\ heap = <<>>
    /\ th = [t \in Threads |-> IdleThread]
    /\ data = NoData
    /\ call = NoCall
    /\ args = NoArgs

\* A lock-free __new__: the `with cls._store_lock` is missing.
unguarded_new(c) == TRUE

\* with cls._store_lock: the lock can be taken when no thread holds it.
lock_is_free(c) == c.lock = 0

\* get_store() / CompaniesStore() is called.
begin_get_store(t) ==
    /\ th[t].pc = "idle"
    /\ th[t].calls < MaxCalls
    /\ th' = [th EXCEPT ![t].pc = "new_lock", ![t].calls = @ + 1]
    /\ UNCHANGED <<cls, heap, tableVars>>

\* __new__: with cls._store_lock
new_acquire(t) ==
    /\ th[t].pc = "new_lock"
    /\ lock_is_free(cls)
    /\ cls' = [cls EXCEPT !.lock = t]
    /\ th' = [th EXCEPT ![t].pc = "new_check"]
    /\ UNCHANGED <<heap, tableVars>>

\* __new__: if cls._store is None
new_check(t) ==
    /\ th[t].pc = "new_check"
    /\ th' = [th EXCEPT ![t].pc = IF cls.store = 0 THEN "new_create" ELSE "new_return"]
    /\ UNCHANGED <<cls, heap, tableVars>>

\* __new__: cls._store = super().__new__(cls); cls._store._is_initialized = False
new_create(t) ==
    /\ th[t].pc = "new_create"
    /\ heap' = Append(heap, NewInstance)
    /\ cls' = [cls EXCEPT !.store = Len(heap) + 1]
    /\ th' = [th EXCEPT ![t].pc = "new_return"]
    /\ UNCHANGED tableVars

\* __new__: return cls._store, leaving the with block
new_return(t) ==
    /\ th[t].pc = "new_return"
    /\ cls' = [cls EXCEPT !.lock = 0]
    /\ th' = [th EXCEPT ![t].pc = "init_check", ![t].obj = cls.store]
    /\ UNCHANGED <<heap, tableVars>>

\* __init__: if not self._is_initialized
init_check(t) ==
    /\ th[t].pc = "init_check"
    /\ th' = [th EXCEPT ![t].pc = IF ~heap[th[t].obj].is_initialized
                                  THEN "init_assign" ELSE "idle",
                        ![t].store = IF ~heap[th[t].obj].is_initialized
                                     THEN @ ELSE th[t].obj]
    /\ UNCHANGED <<cls, heap, tableVars>>

\* __init__: self._companies = set(); the call returns the instance
init_assign(t) ==
    /\ th[t].pc = "init_assign"
    /\ heap' = [heap EXCEPT ![th[t].obj].companies = {}, ![th[t].obj].gen = @ + 1]
    /\ th' = [th EXCEPT ![t].pc = "idle", ![t].store = th[t].obj]
    /\ UNCHANGED <<cls, tableVars>>

\* store.add_company_id(stock_id) is called.
begin_add(t) ==
    /\ th[t].pc = "idle"
    /\ th[t].store # 0
    /\ th[t].calls < MaxCalls
    /\ \E id \in Symbols :
          th' = [th EXCEPT ![t].pc = "add_load", ![t].stock_id = id, ![t].calls = @ + 1]
    /\ UNCHANGED <<cls, heap, tableVars>>

\* add_company_id: self._companies is loaded
add_load(t) ==
    /\ th[t].pc = "add_load"
    /\ th' = [th EXCEPT ![t].pc = "add_call", ![t].loaded = heap[th[t].store].gen]
    /\ UNCHANGED <<cls, heap, tableVars>>

\* add_company_id: .add(stock_id) on the loaded set, which is still the
\* registry's set only if self._companies was not rebound meanwhile
add_call(t) ==
    /\ th[t].pc = "add_call"
    /\ heap' = IF th[t].loaded = heap[th[t].store].gen
               THEN [heap EXCEPT ![th[t].store].companies = @ \cup {th[t].stock_id}]
               ELSE heap
    /\ th' = [th EXCEPT ![t].pc = "idle"]
    /\ UNCHANGED <<cls, tableVars>>

\* store.remove_company_id(stock_id) is called.
begin_remove(t) ==
    /\ th[t].pc = "idle"
    /\ th[t].store # 0
    /\ th[t].calls < MaxCalls
    /\ \E id \in Symbols :
          th' = [th EXCEPT ![t].pc = "remove_check", ![t].stock_id = id,
                           ![t].calls = @ + 1]
    /\ UNCHANGED <<cls, heap, tableVars>>

\* remove_company_id: if stock_id in self._companies
remove_check(t) ==
    /\ th[t].pc = "remove_check"
    /\ th' = [th EXCEPT ![t].pc = IF th[t].stock_id \in heap[th[t].store].companies
                                  THEN "remove_call" ELSE "idle"]
    /\ UNCHANGED <<cls, heap, tableVars>>

\* remove_company_id: self._companies.remove(stock_id); set.remove raises
\* KeyError when the element is not in the set
remove_call(t) ==
    /\ th[t].pc = "remove_call"
    /\ IF th[t].stock_id \in heap[th[t].store].companies
       THEN /\ heap' = [heap EXCEPT ![th[t].store].companies = @ \ {th[t].stock_id}]
            /\ th' = [th EXCEPT ![t].pc = "idle"]
       ELSE /\ heap' = heap
            /\ th' = [th EXCEPT ![t].pc = "KeyError"]
    /\ UNCHANGED <<cls, tableVars>>

NextStore ==
    \E t \in Threads :
        \/ begin_get_store(t)
        \/ new_acquire(t)
        \/ new_check(t)
        \/ new_create(t)
        \/ new_return(t)
        \/ init_check(t)
        \/ init_assign(t)
        \/ begin_add(t)
        \/ add_load(t)
        \/ add_call(t)
        \/ begin_remove(t)
        \/ remove_check(t)
        \/ remove_call(t)

SpecStore == InitStore /\ [][NextStore]_vars

\* C8: under every interleaving at most one instance is ever created, and
\* every registry a caller holds or is being handed is that instance,
\* cls._store.
C8_SingleInstance ==
    /\ Len(heap) <= 1
    /\ \A t \in Threads :
          /\ th[t].store # 0 => (th[t].store = cls.store /\ cls.store = 1)
          /\ th[t].obj # 0 => (th[t].obj = cls.store /\ cls.store = 1)

\* C8 witness: two first calls overlap: one thread has created the instance
\* and has not yet returned from CompaniesStore(), another is inside __new__
\* and finds the instance there.
C8_Witness ==
    \E t1 \in Threads : \E t2 \in Threads \ {t1} :
        /\ th[t1].calls = 1 /\ th[t1].pc \in {"init_check", "init_assign"}
        /\ th[t2].calls = 1 /\ th[t2].pc = "new_return"
        /\ Len(heap) = 1

\* C9 (as claimed): under every interleaving of add_company_id and
\* remove_company_id calls, no call raises.
C9_NoCallRaises == \A t \in Threads : th[t].pc # "KeyError"

----------------------------------------------------------------------------
(* AdvancedFinancialIndicator.compute_rsi, on float64 values *)

\* A float64 value: a number n/d in lowest terms (d > 0), an infinity with
\* its sign in n, or NaN.  Prices are whole numbers, so every sum, difference
\* and mean below is exact.
NaN == [kind |-> "nan", n |-> 0, d |-> 0]

Inf(sign) == [kind |-> "inf", n |-> sign, d |-> 0]

RECURSIVE GCD(_, _)
GCD(a, b) == IF b = 0 THEN a ELSE GCD(b, a % b)

Num(n, d) ==
    LET g == GCD(Abs(n), Abs(d))
        sign == IF d < 0 THEN -1 ELSE 1
    IN  [kind |-> "num", n |-> (sign * n) \div g, d |-> (sign * d) \div g]

Float(i) == Num(i, 1)

Sign(a) == IF a.n > 0 THEN 1 ELSE IF a.n < 0 THEN -1 ELSE 0

FNeg(a) == IF a.kind = "num" THEN Num(-a.n, a.d) ELSE [a EXCEPT !.n = -a.n]

FAdd(a, b) ==
    IF a.kind = "nan" \/ b.kind = "nan" THEN NaN
    ELSE IF a.kind = "inf" /\ b.kind = "inf" THEN IF a.n = b.n THEN a ELSE NaN
    ELSE IF a.kind = "inf" THEN a
    ELSE IF b.kind = "inf" THEN b
    ELSE Num(a.n * b.d + b.n * a.d, a.d * b.d)

FSub(a, b) == FAdd(a, FNeg(b))

\* x / 0 is an infinity for x # 0 and NaN for x = 0; nothing raises.
FDiv(a, b) ==
    IF a.kind = "nan" \/ b.kind = "nan" THEN NaN
    ELSE IF a.kind = "inf" /\ b.kind = "inf" THEN NaN
    ELSE IF a.kind = "inf" THEN Inf(a.n * (IF b.n < 0 THEN -1 ELSE 1))
    ELSE IF b.kind = "inf" THEN Float(0)
    ELSE IF b.n = 0 THEN (IF a.n = 0 THEN NaN ELSE Inf(Sign(a)))
    ELSE Num(a.n * b.d, a.d * b.n)

FLess(a, b) == a.n * b.d < b.n * a.d

\* A validation that accepts every table.
validate_nothing(stock_data, required_columns) == TRUE

\* validate_data: every required column is a column of the table
validate_data(stock_data, required_columns) == required_columns \subseteq stock_data.columns

\* stock_data[column]
column_series(stock_data, column) ==
    [k \in 1..NumRows(stock_data) |-> Float(stock_data.rows[k][column])]

\* Series.diff(): NaN at the first position
diff(s) == [k \in 1..Len(s) |-> IF k = 1 THEN NaN ELSE FSub(s[k], s[k - 1])]

\* Series.clip(lower=0) / Series.clip(upper=0): NaN stays NaN
clip_lower(s) ==
    [k \in 1..Len(s) |-> IF s[k].kind = "num" /\ FLess(s[k], Float(0)) THEN Float(0) ELSE s[k]]

clip_upper(s) ==
    [k \in 1..Len(s) |-> IF s[k].kind = "num" /\ FLess(Float(0), s[k]) THEN Float(0) ELSE s[k]]

negated(s) == [k \in 1..Len(s) |-> FNeg(s[k])]

RECURSIVE FSum(_)
FSum(s) == IF Len(s) = 0 THEN Float(0) ELSE FAdd(s[1], FSum(Tail(s)))

\* A rolling mean over the values at hand, however few (min_periods = 1).
rolling_mean_partial(s, window) ==
    [k \in 1..Len(s) |->
        LET first == IF k < window THEN 1 ELSE k - window + 1
        IN  FDiv(FSum(SubSeq(s, first, k)), Float(k - first + 1))]

\* Series.rolling(window=window).mean(): NaN until the window holds `window`
\* values that are not NaN
rolling_mean(s, window) ==
    [k \in 1..Len(s) |->
        IF k < window \/ \E j \in (k - window + 1)..k : s[j].kind = "nan"
        THEN NaN
        ELSE FDiv(FSum(SubSeq(s, k - window + 1, k)), Float(window))]

rsi_gain(stock_data, window, column) ==
    rolling_mean(clip_lower(diff(column_series(stock_data, column))), window)

rsi_loss(stock_data, window, column) ==
    rolling_mean(negated(clip_upper(diff(column_series(stock_data, column)))), window)

\* rs = gain / loss; rsi_series = 100 - (100 / (1 + rs))
compute_rsi_series(stock_data, window, column) ==
    LET gain == rsi_gain(stock_data, window, column)
        loss == rsi_loss(stock_data, window, column)
        rs == [k \in 1..Len(gain) |-> FDiv(gain[k], loss[k])]
    IN  [k \in 1..Len(rs) |-> FSub(Float(100), FDiv(Float(100), FAdd(Float(1), rs[k])))]

MaxWindow == 3

PriceColumns == {"Close", "Open"}

InitRSI ==
    /\ \E n \in 0..MaxTrendLen : \E h \in FlatHistories(n, 1..MaxClose) :
       \E columns \in {OHLCV, OHLCV \ {"Close"}} :
          data = MakeTable(columns, h)
    /\ call = NoCall
    /\ \E window \in 1..MaxWindow : \E column \in PriceColumns :
          args = [window |-> window, column |-> column]
    /\ StoreUnused

compute_rsi ==
    /\ call.op = "none"
    /\ call' = IF ~validate_data(data, {args.column})
               THEN [op |-> "compute_rsi", returned |-> None, value |-> <<>>]
               ELSE [op |-> "compute_rsi", returned |-> "Series",
                     value |-> compute_rsi_series(data, args.window, args.column)]
    /\ UNCHANGED <<data, args, storeVars>>

NextRSI == compute_rsi

SpecRSI == InitRSI /\ [][NextRSI]_vars

\* C10 (as claimed): at every position where the trailing-window mean of
\* losses is 0, compute_rsi yields exactly 100, also when the mean of gains
\* is 0 too (a constant series); and every RSI value that is a number lies
\* in [0, 100].
C10_RSIBoundary ==
    (call.op = "compute_rsi" /\ call.returned = "Series") =>
        \A k \in 1..Len(call.value) :
            /\ rsi_loss(data, args.window, args.column)[k] = Float(0)
                  => call.value[k] = Float(100)
            /\ call.value[k].kind = "num"
                  => (~FLess(call.value[k], Float(0)) /\ ~FLess(Float(100), call.value[k]))

----------------------------------------------------------------------------
(* AdvancedFinancialIndicator: compute_ema, compute_macd, compute_bollinger_bands *)

FMul(a, b) ==
    IF a.kind = "nan" \/ b.kind = "nan" THEN NaN
    ELSE IF a.kind = "inf" \/ b.kind = "inf"
         THEN (IF Sign(a) * Sign(b) = 0 THEN NaN ELSE Inf(Sign(a) * Sign(b)))
    ELSE Num(a.n * b.n, a.d * b.d)

\* a < b and a > b on float64 values: every comparison with NaN is False.
FLt(a, b) ==
    /\ a.kind # "nan" /\ b.kind # "nan"
    /\ IF a.kind = "inf" THEN a.n < 0 /\ b # a
       ELSE IF b.kind = "inf" THEN b.n > 0
       ELSE FLess(a, b)

FGt(a, b) == FLt(b, a)

ValueError == "ValueError"

TypeError == "TypeError"

\* Series.ewm(span=window, adjust=False).mean() on a series without NaN:
\* y[0] = x[0], y[t] = (1 - alpha) * y[t-1] + alpha * x[t], alpha = 2 / (span + 1).
RECURSIVE ewm_from(_, _, _)
ewm_from(s, alpha, y) ==
    IF Len(y) = Len(s) THEN y
    ELSE IF Len(y) = 0 THEN ewm_from(s, alpha, <<s[1]>>)
    ELSE ewm_from(s, alpha,
                  Append(y, FAdd(FMul(FSub(Float(1), alpha), y[Len(y)]),
                                 FMul(alpha, s[Len(y) + 1]))))

\* A smoothing factor of 1 / span (Wilder's smoothing), which ewm does not use.
smoothing_factor_wilder(span) == Num(1, span)

\* ewm(span=...) smooths with alpha = 2 / (span + 1).
smoothing_factor(span) == Num(2, span + 1)

\* ewm(span=...) rejects a span below 1 with ValueError before any value is
\* computed.
ewm_raises(span) == span < 1

ewm_mean(s, span) == ewm_from(s, smoothing_factor(span), <<>>)

\* compute_ema does not validate: stock_data[column] raises KeyError when the
\* column is absent.
compute_ema_raises(stock_data, column) == column \notin stock_data.columns

compute_ema(stock_data, window, column) == ewm_mean(column_series(stock_data, column), window)

series_sub(a, b) == [k \in 1..Len(a) |-> FSub(a[k], b[k])]

\* A returned object: None, or a pd.Series with its values.
NoneValue == [none |-> TRUE, series |-> <<>>]

SeriesValue(s) == [none |-> FALSE, series |-> s]

\* compute_macd: the tuple it returns, as a sequence of its components.
compute_macd(stock_data, short_window, long_window, signal_window) ==
    IF ~validate_data(stock_data, {"Close"}) THEN <<NoneValue, NoneValue>>
    ELSE LET macd_series == series_sub(compute_ema(stock_data, short_window, "Close"),
                                       compute_ema(stock_data, long_window, "Close"))
             signal_line_series == ewm_mean(macd_series, signal_window)
         IN  <<SeriesValue(macd_series), SeriesValue(signal_line_series)>>

\* Series.rolling(window=window).var() with ddof = 1, from which .std() is
\* the square root: NaN until the window is full, and for window = 1.
rolling_var(s, window) ==
    [k \in 1..Len(s) |->
        IF k < window \/ \E j \in (k - window + 1)..k : s[j].kind = "nan"
        THEN NaN
        ELSE LET w == SubSeq(s, k - window + 1, k)
                 sum == FSum(w)
                 squares == FSum([j \in 1..window |-> FMul(w[j], w[j])])
             IN  FDiv(FSub(FMul(Float(window), squares), FMul(sum, sum)),
                      Float(window * (window - 1)))]

\* A band value rolling_mean + k * rolling_std, kept as its mean, the variance
\* under the square root, and k; NaN when the mean or the variance is NaN.
Band(mean, var, k) ==
    IF mean.kind = "nan" \/ var.kind = "nan" THEN NaN
    ELSE [kind |-> "band", mean |-> mean, var |-> var, k |-> k]

DefaultNumStd == 2

compute_bollinger_bands(stock_data, window, num_std, column) ==
    IF ~validate_data(stock_data, {column}) THEN <<NoneValue, NoneValue, NoneValue>>
    ELSE LET rolling_mean_series == rolling_mean(column_series(stock_data, column), window)
             rolling_var_series == rolling_var(column_series(stock_data, column), window)
             n == Len(rolling_mean_series)
         IN  << SeriesValue([k \in 1..n |->
                        Band(rolling_mean_series[k], rolling_var_series[k], num_std)]),
                SeriesValue(rolling_mean_series),
                SeriesValue([k \in 1..n |->
                        Band(rolling_mean_series[k], rolling_var_series[k], -num_std)]) >>

\* x > mean + k * sqrt(var) and x < mean + k * sqrt(var), exactly; False for NaN.
GtBand(x, band) ==
    /\ x.kind = "num" /\ band.kind = "band"
    /\ LET e == FSub(x, band.mean)
           kk == FMul(Float(band.k * band.k), band.var)
       IN  IF band.k >= 0
           THEN FLess(Float(0), e) /\ FLess(kk, FMul(e, e))
           ELSE \/ FLess(Float(0), e)
                \/ e = Float(0) /\ FLess(Float(0), kk)
                \/ FLess(e, Float(0)) /\ FLess(FMul(e, e), kk)

LtBand(x, band) ==
    /\ x.kind = "num" /\ band.kind = "band"
    /\ LET e == FSub(x, band.mean)
           kk == FMul(Float(band.k * band.k), band.var)
       IN  IF band.k <= 0
           THEN FLess(e, Float(0)) /\ FLess(kk, FMul(e, e))
           ELSE \/ FLess(e, Float(0))
                \/ e = Float(0) /\ FLess(Float(0), kk)
                \/ FLess(Float(0), e) /\ FLess(FMul(e, e), kk)

----------------------------------------------------------------------------
(* Calls of compute_macd, compute_bollinger_bands and compute_rsi *)

\* Spans whose smoothing factors 2 / (span + 1) are 1 and 1/2.
SpanChoices == {1, 3}

InitMACD ==
    /\ \E n \in 0..MaxTrendLen : \E h \in FlatHistories(n, 1..MaxClose) :
       \E columns \in {OHLCV, OHLCV \ {"Close"}} :
          data = MakeTable(columns, h)
    /\ call = NoCall
    /\ \E short_window \in SpanChoices : \E long_window \in SpanChoices :
       \E signal_window \in SpanChoices : \E window \in 1..MaxWindow :
          args = [short_window |-> short_window, long_window |-> long_window,
                  signal_window |-> signal_window, window |-> window, column |-> "Close"]
    /\ StoreUnused

call_compute_macd ==
    /\ call.op = "none"
    /\ call' = [op |-> "compute_macd",
                value |-> compute_macd(data, args.short_window, args.long_window,
                                       args.signal_window)]
    /\ UNCHANGED <<data, args, storeVars>>

call_compute_bollinger_bands ==
    /\ call.op = "none"
    /\ call' = [op |-> "compute_bollinger_bands",
                value |-> compute_bollinger_bands(data, args.window, DefaultNumStd,
                                                  args.column)]
    /\ UNCHANGED <<data, args, storeVars>>

NextMACD == call_compute_macd \/ call_compute_bollinger_bands \/ compute_rsi

SpecMACD == InitMACD /\ [][NextMACD]_vars

\* C11 (as claimed): for every table with a Close column compute_macd
\* returns three series (MACD line, Signal line, Histogram), each as long as
\* the input, with Histogram[i] = MACD[i] - Signal[i] at every position.
C11_MACDThreeSeries ==
    (call.op = "compute_macd" /\ "Close" \in data.columns) =>
        /\ Len(call.value) = 3
        /\ \A j \in 1..3 : ~call.value[j].none /\ Len(call.value[j].series) = NumRows(data)
        /\ \A k \in 1..NumRows(data) :
              call.value[3].series[k] = FSub(call.value[1].series[k], call.value[2].series[k])

\* C15 (as claimed): when the price column is absent, compute_macd returns
\* None for each of three outputs, compute_bollinger_bands returns None for
\* each of three outputs, and compute_rsi returns None.
C15_NoneWhenColumnAbsent ==
    (args.column \notin data.columns) =>
        /\ call.op = "compute_macd" =>
              (Len(call.value) = 3 /\ \A j \in 1..3 : call.value[j].none)
        /\ call.op = "compute_bollinger_bands" =>
              (Len(call.value) = 3 /\ \A j \in 1..3 : call.value[j].none)
        /\ call.op = "compute_rsi" => call.returned = None

----------------------------------------------------------------------------
(* AdvancedFinancialIndicator.apply_strategy *)

DefaultSignalWindow == 9
DefaultRSIWindow == 14

\* stock_data[name] = values, for each name of the record new: the columns
\* are added to the table in place.
with_columns(d, new) ==
    [columns |-> d.columns \cup DOMAIN new,
     rows |-> [k \in 1..NumRows(d) |->
                 [f \in (DOMAIN d.rows[k]) \cup DOMAIN new |->
                     IF f \in DOMAIN new THEN new[f][k] ELSE d.rows[k][f]]]]

\* The column a returned object makes: a Series gives its values, None
\* gives None in every row.
column_of(v, n) == IF v.none THEN [k \in 1..n |-> None] ELSE v.series

\* compute_rsi as a returned object
compute_rsi_value(stock_data, window, column) ==
    IF ~validate_data(stock_data, {column}) THEN NoneValue
    ELSE SeriesValue(compute_rsi_series(stock_data, window, column))

\* Lines 199-203: MACD and Signal_Line from compute_macd(stock_data,
\* short_window, long_window), the bands from compute_bollinger_bands(
\* stock_data, volume_window, column=column), RSI from compute_rsi(stock_data,
\* column=column).
strategy_indicators(d, short_window, long_window, volume_window, column) ==
    LET n == NumRows(d)
        macd == compute_macd(d, short_window, long_window, DefaultSignalWindow)
        bands == compute_bollinger_bands(d, volume_window, DefaultNumStd, column)
        rsi == compute_rsi_value(d, DefaultRSIWindow, column)
    IN  [MACD |-> column_of(macd[1], n), Signal_Line |-> column_of(macd[2], n),
         Bollinger_Upper |-> column_of(bands[1], n),
         Bollinger_Mid |-> column_of(bands[2], n),
         Bollinger_Lower |-> column_of(bands[3], n),
         RSI |-> column_of(rsi, n)]

\* A Buy_Signal that leaves out the volume condition.
buy_signal_without_volume(macd, signal, close, lower, rsi, volume, volume_mean) ==
    FGt(macd, signal) /\ GtBand(close, lower) /\ FLt(rsi, Float(70))

\* Lines 206-209
buy_signal(macd, signal, close, lower, rsi, volume, volume_mean) ==
    FGt(macd, signal) /\ GtBand(close, lower) /\ FLt(rsi, Float(70))
        /\ FGt(volume, volume_mean)

\* A Sell_Signal that leaves out the MACD condition.
sell_signal_without_macd(macd, signal, close, upper, rsi) ==
    LtBand(close, upper) /\ FGt(rsi, Float(30))

\* Lines 211-213
sell_signal(macd, signal, close, upper, rsi) ==
    FLt(macd, signal) /\ LtBand(close, upper) /\ FGt(rsi, Float(30))

strategy_signals(d, volume_window) ==
    LET volume_mean == rolling_mean(column_series(d, "Volume"), volume_window)
    IN  [Buy_Signal |-> [k \in 1..NumRows(d) |->
                            buy_signal(d.rows[k].MACD, d.rows[k].Signal_Line,
                                       Float(d.rows[k].Close), d.rows[k].Bollinger_Lower,
                                       d.rows[k].RSI, Float(d.rows[k].Volume),
                                       volume_mean[k])],
         Sell_Signal |-> [k \in 1..NumRows(d) |->
                            sell_signal(d.rows[k].MACD, d.rows[k].Signal_Line,
                                        Float(d.rows[k].Close), d.rows[k].Bollinger_Upper,
                                        d.rows[k].RSI)]]

MaxSuffix == 3

\* Rows with Open = High = Low = Close and a volume.
VolumeBar(c, v) == Bar(c, c, c, c, v)

RECURSIVE VolumeHistories(_, _, _)
VolumeHistories(n, closes, volumes) ==
    IF n = 0 THEN {<<>>}
    ELSE {Append(h, VolumeBar(c, v)) :
             h \in VolumeHistories(n - 1, closes, volumes), c \in closes, v \in volumes}

\* A run of equal bars, long enough for the RSI window to fill after it.
FlatPrefix(c) == [k \in 1..(DefaultRSIWindow - 1) |-> VolumeBar(c, 1)]

StrategyColumnSets == {OHLCV} \cup {OHLCV \ {f} : f \in {"Close", "Open", "Volume"}}

InitStrategy ==
    /\ \/ /\ \E n \in 0..MaxSuffix :
             \E h \in VolumeHistories(n, 1..MaxClose, 1..MaxVolume) :
             \E prefix \in {<<>>, FlatPrefix(2)} :
                data = MakeTable(OHLCV, prefix \o h)
          /\ \E short_window \in SpanChoices : \E long_window \in SpanChoices \ {short_window} :
             \E volume_window \in 1..MaxWindow :
                args = [short_window |-> short_window, long_window |-> long_window,
                        signal_window |-> 3, volume_window |-> volume_window,
                        column |-> "Close"]
       \/ /\ \E n \in 0..1 : \E h \in VolumeHistories(n, 1..MaxClose, 1..MaxVolume) :
             \E prefix \in {<<>>, FlatPrefix(1)} : \E columns \in StrategyColumnSets :
                data = MakeTable(columns, prefix \o h)
          /\ \E signal_window \in SpanChoices \cup {DefaultSignalWindow} :
             \E column \in PriceColumns :
                args = [short_window |-> 1, long_window |-> 3,
                        signal_window |-> signal_window, volume_window |-> 2,
                        column |-> column]
    /\ call = NoCall
    /\ StoreUnused

\* apply_strategy(stock_data, short_window=.., long_window=.., volume_window=..,
\* column=..): the table is changed in place and returned.
apply_strategy ==
    /\ call.op = "none"
    /\ IF ~validate_data(data, {args.column, "Volume"})
       THEN /\ data' = data
            /\ call' = [op |-> "apply_strategy", signal_window_passed |-> FALSE,
                        outcome |-> "returned"]
       \* not reached after the validation: reading stock_data[column] or
       \* stock_data['Volume'] of a table without it raises KeyError
       ELSE IF args.column \notin data.columns \/ "Volume" \notin data.columns
       THEN /\ data' = data
            /\ call' = [op |-> "apply_strategy", signal_window_passed |-> FALSE,
                        outcome |-> KeyError]
       ELSE LET indicators == with_columns(data,
                    strategy_indicators(data, args.short_window, args.long_window,
                                        args.volume_window, args.column))
            IN  IF "Close" \in data.columns
                THEN /\ data' = with_columns(indicators,
                                    strategy_signals(indicators, args.volume_window))
                     /\ call' = [op |-> "apply_strategy", signal_window_passed |-> FALSE,
                                 outcome |-> "returned"]
                \* compute_macd returned (None, None): comparing the MACD column
                \* of None raises TypeError; on no rows the comparison is empty
                \* and stock_data['Close'] raises KeyError
                ELSE /\ data' = indicators
                     /\ call' = [op |-> "apply_strategy", signal_window_passed |-> FALSE,
                                 outcome |-> IF NumRows(data) = 0 THEN KeyError
                                             ELSE TypeError]
    /\ UNCHANGED <<args, storeVars>>

\* apply_strategy(stock_data, short_window=.., long_window=.., signal_window=..,
\* volume_window=..): the function has no parameter signal_window, the call
\* raises TypeError before the body runs.
apply_strategy_with_signal_window ==
    /\ call.op = "none"
    /\ call' = [op |-> "apply_strategy", signal_window_passed |-> TRUE,
                outcome |-> TypeError]
    /\ UNCHANGED <<data, args, storeVars>>

NextStrategy == apply_strategy \/ apply_strategy_with_signal_window

SpecStrategy == InitStrategy /\ [][NextStrategy]_vars

StrategyColumns ==
    {"MACD", "Signal_Line", "MACD_Histogram", "Bollinger_Upper", "Bollinger_Mid",
     "Bollinger_Lower", "RSI", "Buy_Signal", "Sell_Signal"}

\* C12 (as claimed): apply_strategy accepts short_window, long_window,
\* signal_window and volume_window and, for every table with Close and
\* Volume, returns the table with the nine strategy columns present, its
\* Signal_Line being the EMA of its MACD over the supplied signal_window.
C12_StrategyColumns ==
    (call.op = "apply_strategy" /\ {"Close", "Volume"} \subseteq data.columns) =>
        /\ call.outcome = "returned"
        /\ StrategyColumns \subseteq data.columns
        /\ [k \in 1..NumRows(data) |-> data.rows[k].Signal_Line]
              = ewm_mean([k \in 1..NumRows(data) |-> data.rows[k].MACD], args.signal_window)

\* C13: in the table apply_strategy returns, at every position Buy_Signal is
\* true exactly when MACD > Signal_Line, Close > Bollinger_Lower, RSI < 70
\* and Volume > the trailing volume_window mean of Volume, and Sell_Signal is
\* true exactly when MACD < Signal_Line, Close < Bollinger_Upper and RSI > 30;
\* a comparison with an undefined value is false.
C13_SignalsByRule ==
    (call.op = "apply_strategy" /\ call.outcome = "returned"
        /\ "Buy_Signal" \in data.columns) =>
        \A k \in 1..NumRows(data) :
            LET r == data.rows[k]
                first == Max2(1, k - args.volume_window + 1)
                volume_sum == FSum([j \in 1..(k - first + 1) |->
                                       Float(data.rows[first + j - 1].Volume)])
            IN  /\ r.Buy_Signal <=>
                      /\ FGt(r.MACD, r.Signal_Line)
                      /\ GtBand(Float(r.Close), r.Bollinger_Lower)
                      /\ r.RSI.kind = "num" /\ FLess(r.RSI, Float(70))
                      /\ k >= args.volume_window
                      /\ FLess(volume_sum, Float(r.Volume * args.volume_window))
                /\ r.Sell_Signal <=>
                      /\ FLt(r.MACD, r.Signal_Line)
                      /\ LtBand(Float(r.Close), r.Bollinger_Upper)
                      /\ r.RSI.kind = "num" /\ FLess(Float(30), r.RSI)

\* C13 witness: a returned table with a Buy_Signal at one position and a
\* Sell_Signal at another, and positions with neither.
C13_Witness ==
    /\ call.op = "apply_strategy" /\ call.outcome = "returned"
    /\ "Buy_Signal" \in data.columns
    /\ \E k \in 1..NumRows(data) : data.rows[k].Buy_Signal
    /\ \E k \in 1..NumRows(data) : data.rows[k].Sell_Signal
    /\ \E k \in 1..NumRows(data) : ~data.rows[k].Buy_Signal /\ ~data.rows[k].Sell_Signal

----------------------------------------------------------------------------
(* AdvancedFinancialIndicator.compute_fibonacci_retracement *)

\* The dates of the tables and of the ranges, in calendar order.
Calendar == <<"2021-01-01", "2021-01-02", "2021-01-03", "2021-01-10">>

TableDates == {Calendar[k] : k \in 1..3}

\* pd.to_datetime on a date string: its place in time.
to_datetime(date_str) == CHOOSE k \in 1..Len(Calendar) : Calendar[k] = date_str

\* A mask that leaves out the bars dated exactly start or exactly end.
in_range_exclusive(date, start_date, end_date) == date > start_date /\ date < end_date

\* Line 155: (to_datetime(Date) >= start_date) & (to_datetime(Date) <= end_date)
in_range(date, start_date, end_date) == date >= start_date /\ date <= end_date

\* relevant_data = stock_data[mask], as the positions kept
relevant_rows(stock_data, start_date_str, end_date_str) ==
    {k \in 1..NumRows(stock_data) :
        in_range(to_datetime(stock_data.rows[k].Date),
                 to_datetime(start_date_str), to_datetime(end_date_str))}

\* A test that never finds the selection empty.
never_empty(rows) == FALSE

\* relevant_data.empty
is_empty(rows) == rows = {}

\* Series.max() / Series.min(): NaN on an empty series
series_max(values) ==
    IF values = {} THEN NaN
    ELSE Float(CHOOSE v \in values : \A u \in values : u <= v)

series_min(values) ==
    IF values = {} THEN NaN
    ELSE Float(CHOOSE v \in values : \A u \in values : v <= u)

\* The ratios of lines 166-170, in thousandths.
LevelRatios ==
    ("Level_23.6%" :> 236) @@ ("Level_38.2%" :> 382) @@ ("Level_50%" :> 500)
        @@ ("Level_61.8%" :> 618) @@ ("Level_76.4%" :> 764)

LevelNames == {"Level_0", "Level_100"} \cup DOMAIN LevelRatios

\* Lines 161-172
fibonacci_levels(stock_data, rows) ==
    LET high == series_max({stock_data.rows[k].High : k \in rows})
        low == series_min({stock_data.rows[k].Low : k \in rows})
        diff_hl == FSub(high, low)
    IN  [name \in LevelNames |->
            IF name = "Level_0" THEN high
            ELSE IF name = "Level_100" THEN low
            ELSE FSub(high, FMul(diff_hl, Num(LevelRatios[name], 1000)))]

NoLevels == [name \in {} |-> NaN]

MaxFibRows == 3

\* Bars as (Date, High, Low) with Low <= High.
FibBars ==
    {[Date |-> t, High |-> hl[1], Low |-> hl[2]] :
        t \in TableDates, hl \in {<<1, 1>>, <<2, 1>>, <<2, 2>>}}

RECURSIVE FibHistories(_)
FibHistories(n) ==
    IF n = 0 THEN {<<>>}
    ELSE {Append(h, b) : h \in FibHistories(n - 1), b \in FibBars}

FibColumns == {"Date", "High", "Low"}

InitFibonacci ==
    /\ \E n \in 0..MaxFibRows : \E h \in FibHistories(n) :
       \E columns \in {FibColumns, FibColumns \ {"Date"}} :
          data = MakeTable(columns, h)
    /\ \E s \in 1..Len(Calendar) : \E e \in 1..Len(Calendar) :
          args = [start_date_str |-> Calendar[s], end_date_str |-> Calendar[e]]
    /\ call = NoCall
    /\ StoreUnused

compute_fibonacci_retracement ==
    /\ call.op = "none"
    /\ call' =
          IF "Date" \notin data.columns
          THEN [op |-> "compute_fibonacci_retracement", outcome |-> ValueError,
                levels |-> NoLevels]
          ELSE LET rows == relevant_rows(data, args.start_date_str, args.end_date_str)
               IN  IF is_empty(rows)
                   THEN [op |-> "compute_fibonacci_retracement", outcome |-> ValueError,
                         levels |-> NoLevels]
                   ELSE [op |-> "compute_fibonacci_retracement", outcome |-> "returned",
                         levels |-> fibonacci_levels(data, rows)]
    /\ UNCHANGED <<data, args, storeVars>>

NextFibonacci == compute_fibonacci_retracement

SpecFibonacci == InitFibonacci /\ [][NextFibonacci]_vars

\* The bars dated from start to end, both ends included.
SelectedBars ==
    {k \in 1..NumRows(data) :
        \E i \in 1..Len(Calendar) : \E s \in 1..i : \E e \in i..Len(Calendar) :
            /\ data.rows[k].Date = Calendar[i]
            /\ args.start_date_str = Calendar[s] /\ args.end_date_str = Calendar[e]}

FLeq(a, b) == ~FLess(b, a)

\* C16: whenever the range [start, end], ends included, selects at least one
\* bar, compute_fibonacci_retracement returns seven levels with Level_0 the
\* largest High and Level_100 the smallest Low of the selected bars, and
\* Level_0 >= 23.6% >= 38.2% >= 50% >= 61.8% >= 76.4% >= Level_100.
C16_FibonacciLevels ==
    (call.op = "compute_fibonacci_retracement" /\ "Date" \in data.columns
        /\ SelectedBars # {}) =>
        /\ call.outcome = "returned"
        /\ DOMAIN call.levels = LevelNames /\ Cardinality(LevelNames) = 7
        /\ \E k \in SelectedBars : call.levels["Level_0"] = Float(data.rows[k].High)
        /\ \A k \in SelectedBars : FLeq(Float(data.rows[k].High), call.levels["Level_0"])
        /\ \E k \in SelectedBars : call.levels["Level_100"] = Float(data.rows[k].Low)
        /\ \A k \in SelectedBars : FLeq(call.levels["Level_100"], Float(data.rows[k].Low))
        /\ FLeq(call.levels["Level_23.6%"], call.levels["Level_0"])
        /\ FLeq(call.levels["Level_38.2%"], call.levels["Level_23.6%"])
        /\ FLeq(call.levels["Level_50%"], call.levels["Level_38.2%"])
        /\ FLeq(call.levels["Level_61.8%"], call.levels["Level_50%"])
        /\ FLeq(call.levels["Level_76.4%"], call.levels["Level_61.8%"])
        /\ FLeq(call.levels["Level_100"], call.levels["Level_76.4%"])

\* C16 witness: levels returned for a range with start before end that has a
\* bar dated exactly start and a bar dated exactly end, leaves out a bar
\* with a larger High, and spans distinct levels.
C16_Witness ==
    /\ call.op = "compute_fibonacci_retracement" /\ call.outcome = "returned"
    /\ args.start_date_str # args.end_date_str
    /\ \E k \in SelectedBars : data.rows[k].Date = args.start_date_str
    /\ \E k \in SelectedBars : data.rows[k].Date = args.end_date_str
    /\ \E k \in (1..NumRows(data)) \ SelectedBars :
          FLess(call.levels["Level_0"], Float(data.rows[k].High))

\* C17: compute_fibonacci_retracement raises, and returns no levels, whenever
\* the range selects no bar (a start after the end included) or the table has
\* no Date column; the table is left as it was.
C17_FibonacciRaises ==
    [][(call'.op = "compute_fibonacci_retracement"
          /\ ("Date" \notin data.columns \/ SelectedBars = {}))
       => (call'.outcome = ValueError /\ DOMAIN call'.levels = {} /\ data' = data)]_vars

\* C17 witness: the call raised on a table with a Date column and bars, for a
\* range whose start is after its end.
C17_Witness ==
    /\ call.op = "compute_fibonacci_retracement" /\ call.outcome = ValueError
    /\ "Date" \in data.columns /\ NumRows(data) > 0
    /\ to_datetime(args.start_date_str) > to_datetime(args.end_date_str)
    /\ \E k \in 1..NumRows(data) : data.rows[k].Date = args.end_date_str

----------------------------------------------------------------------------
(* MarketConditionLabeler *)

\* Series.pct_change(): NaN at the first position, then x[t] / x[t-1] - 1
pct_change(s) ==
    [k \in 1..Len(s) |-> IF k = 1 THEN NaN ELSE FSub(FDiv(s[k], s[k - 1]), Float(1))]

\* A rolling sum over the values at hand, however few (min_periods = 1).
rolling_sum_partial(s, window) ==
    [k \in 1..Len(s) |->
        FSum(SelectSeq(SubSeq(s, Max2(1, k - window + 1), k), LAMBDA x : x.kind # "nan"))]

\* Series.rolling(window=window).sum(): NaN until the window holds `window`
\* values that are not NaN
rolling_sum(s, window) ==
    [k \in 1..Len(s) |->
        IF k < window \/ \E j \in (k - window + 1)..k : s[j].kind = "nan"
        THEN NaN
        ELSE FSum(SubSeq(s, k - window + 1, k))]

\* _calculate_rolling_return on a table with rows
rolling_return(d, window_size) == rolling_sum(pct_change(column_series(d, "Close")), window_size)

\* A label whose bands leave out their closed ends.
label_open_bounds(rolling_return_value) ==
    LET r == rolling_return_value
    IN  IF FLt(r, Num(-1, 5)) THEN "Severe Bear Market"
        ELSE IF FLt(Num(-1, 5), r) /\ FLt(r, Num(-1, 10)) THEN "Moderate Bear Market"
        ELSE IF FLt(Num(-1, 10), r) /\ FLt(r, Float(0)) THEN "Mild Bear Market"
        ELSE IF r = Float(0) THEN "Neutral"
        ELSE IF FLt(Float(0), r) /\ FLt(r, Num(1, 10)) THEN "Mild Bull Market"
        ELSE IF FLt(Num(1, 10), r) /\ FLt(r, Num(1, 5)) THEN "Moderate Bull Market"
        ELSE IF FLt(Num(1, 5), r) THEN "Strong Bull Market"
        ELSE "Neutral"

\* a <= b and a >= b on float64 values: False when either is NaN
FLe(a, b) == FLt(a, b) \/ (a.kind # "nan" /\ a = b)

FGe(a, b) == FLe(b, a)

\* label_market.label: the if/elif chain of lines 32-46
label(rolling_return_value) ==
    LET r == rolling_return_value
    IN  IF FLe(r, Num(-1, 5)) THEN "Severe Bear Market"
        ELSE IF FLt(Num(-1, 5), r) /\ FLe(r, Num(-1, 10)) THEN "Moderate Bear Market"
        ELSE IF FLt(Num(-1, 10), r) /\ FLt(r, Float(0)) THEN "Mild Bear Market"
        ELSE IF r.kind # "nan" /\ r = Float(0) THEN "Neutral"
        ELSE IF FLt(Float(0), r) /\ FLt(r, Num(1, 10)) THEN "Mild Bull Market"
        ELSE IF FLe(Num(1, 10), r) /\ FLt(r, Num(1, 5)) THEN "Moderate Bull Market"
        ELSE IF FGe(r, Num(1, 5)) THEN "Strong Bull Market"
        ELSE "Neutral"

\* Closes whose period changes hit the thresholds: 10 -> 8, 9, 10, 11, 12
\* are changes of -0.20, -0.10, 0, 0.10, 0.20.
MarketCloses == {8, 9, 10, 11, 12}

InitMarket ==
    /\ \E n \in 0..MaxTrendLen : \E h \in FlatHistories(n, MarketCloses) :
       \E columns \in {OHLCV, OHLCV \ {"Close"}} :
          data = MakeTable(columns, h)
    /\ \E window_size \in 1..MaxWindow : args = [window_size |-> window_size]
    /\ call = NoCall
    /\ StoreUnused

\* MarketConditionLabeler(data, window_size): __init__ calls
\* _calculate_rolling_return, which adds the 'Rolling Return' column.
MarketConditionLabeler ==
    /\ call.op = "none"
    /\ IF NumRows(data) = 0
       THEN /\ data' = [data EXCEPT !.columns = @ \cup {"Rolling Return"}]
            /\ call' = [op |-> "MarketConditionLabeler", outcome |-> "returned",
                        value |-> <<>>]
       ELSE IF "Close" \notin data.columns
       THEN /\ data' = data
            /\ call' = [op |-> "MarketConditionLabeler", outcome |-> KeyError,
                        value |-> <<>>]
       ELSE /\ data' = with_columns(data,
                          "Rolling Return" :> rolling_return(data, args.window_size))
            /\ call' = [op |-> "MarketConditionLabeler", outcome |-> "returned",
                        value |-> <<>>]
    /\ UNCHANGED <<args, storeVars>>

\* label_market(): adds the 'Market Condition' column and returns it.
label_market ==
    /\ call.op = "MarketConditionLabeler" /\ call.outcome = "returned"
    /\ LET labels == [k \in 1..NumRows(data) |-> label(data.rows[k]["Rolling Return"])]
       IN  /\ data' = IF NumRows(data) = 0
                      THEN [data EXCEPT !.columns = @ \cup {"Market Condition"}]
                      ELSE with_columns(data, "Market Condition" :> labels)
           /\ call' = [op |-> "label_market", outcome |-> "returned", value |-> labels]
    /\ UNCHANGED <<args, storeVars>>

NextMarket == MarketConditionLabeler \/ label_market

SpecMarket == InitMarket /\ [][NextMarket]_vars

\* The seven bands of the thresholds, each with its label.
BandLabels(r) ==
    { <<FLeq(r, Num(-1, 5)), "Severe Bear Market">>,
      <<FLess(Num(-1, 5), r) /\ FLeq(r, Num(-1, 10)), "Moderate Bear Market">>,
      <<FLess(Num(-1, 10), r) /\ FLess(r, Float(0)), "Mild Bear Market">>,
      <<r = Float(0), "Neutral">>,
      <<FLess(Float(0), r) /\ FLess(r, Num(1, 10)), "Mild Bull Market">>,
      <<FLeq(Num(1, 10), r) /\ FLess(r, Num(1, 5)), "Moderate Bull Market">>,
      <<FLeq(Num(1, 5), r), "Strong Bull Market">> }

\* C18: label_market gives every defined rolling return the label of the one
\* band it lies in (r <= -0.20 Severe Bear; -0.20 < r <= -0.10 Moderate Bear;
\* -0.10 < r < 0 Mild Bear; r = 0 Neutral; 0 < r < 0.10 Mild Bull;
\* 0.10 <= r < 0.20 Moderate Bull; r >= 0.20 Strong Bull), and a constant
\* Close series is labeled Neutral at every position.
C18_LabelByThresholds ==
    (call.op = "label_market") =>
        /\ \A k \in 1..NumRows(data) :
              LET r == data.rows[k]["Rolling Return"]
              IN  r.kind = "num" =>
                     /\ Cardinality({b \in BandLabels(r) : b[1]}) = 1
                     /\ <<TRUE, call.value[k]>> \in BandLabels(r)
                     /\ data.rows[k]["Market Condition"] = call.value[k]
        /\ (\A k \in 1..NumRows(data) : data.rows[k].Close = data.rows[1].Close)
              => \A k \in 1..NumRows(data) : call.value[k] = "Neutral"

\* C18 witness: labels returned for a series with a rolling return of exactly
\* 0.10 and one of exactly -0.20.
C18_Witness ==
    /\ call.op = "label_market"
    /\ \E k \in 1..NumRows(data) :
          /\ data.rows[k]["Rolling Return"] = Num(1, 10)
          /\ call.value[k] = "Moderate Bull Market"
    /\ \E k \in 1..NumRows(data) :
          /\ data.rows[k]["Rolling Return"] = Num(-1, 5)
          /\ call.value[k] = "Severe Bear Market"

\* C19: the rolling return at position i (from 0) is defined exactly when
\* i >= w, and is then the sum of the period changes (Close[j] - Close[j-1])
\* / Close[j-1] for j in i-w+1 .. i; every position i < w is labeled
\* Neutral; an empty table gives an empty label series.
C19_RollingReturn ==
    /\ (call.op \in {"MarketConditionLabeler", "label_market"}
          /\ call.outcome = "returned") =>
          \A k \in 1..NumRows(data) :
              LET w == args.window_size
                  r == data.rows[k]["Rolling Return"]
                  change(j) == FDiv(Float(data.rows[j].Close - data.rows[j - 1].Close),
                                    Float(data.rows[j - 1].Close))
              IN  IF k - 1 >= w
                  THEN r = FSum([j \in 1..w |-> change(k - w + j)])
                  ELSE r = NaN
    /\ (call.op = "label_market") =>
          /\ call.outcome = "returned"
          /\ Len(call.value) = NumRows(data)
          /\ \A k \in 1..NumRows(data) : k - 1 < args.window_size => call.value[k] = "Neutral"

\* C19 witness: labels returned for a series that is not constant and is
\* longer than the window by two or more.
C19_Witness ==
    /\ call.op = "label_market"
    /\ NumRows(data) >= args.window_size + 2 /\ args.window_size >= 2
    /\ data.rows[NumRows(data)]["Rolling Return"].kind = "num"
    /\ \E k \in 1..NumRows(data) : call.value[k] # "Neutral"

----------------------------------------------------------------------------
(* calc_time_based.calculate_moving_average *)

RECURSIVE NumberSeries(_, _)
NumberSeries(n, values) ==
    IF n = 0 THEN {<<>>}
    ELSE {Append(h, v) : h \in NumberSeries(n - 1, values), v \in values}

InitMovingAverage ==
    /\ \E n \in 0..MaxTrendLen : \E data_series \in NumberSeries(n, 1..MaxClose) :
       \E window_size \in 1..MaxWindow :
          args = [data_series |-> data_series, window_size |-> window_size]
    /\ data = NoData
    /\ call = NoCall
    /\ StoreUnused

\* data_series.rolling(window=window_size).mean()
calculate_moving_average ==
    /\ call.op = "none"
    /\ call' = [op |-> "calculate_moving_average",
                value |-> rolling_mean([k \in 1..Len(args.data_series) |->
                                           Float(args.data_series[k])],
                                       args.window_size)]
    /\ UNCHANGED <<data, args, storeVars>>

NextMovingAverage == calculate_moving_average

SpecMovingAverage == InitMovingAverage /\ [][NextMovingAverage]_vars

RECURSIVE SumOf(_)
SumOf(s) == IF Len(s) = 0 THEN 0 ELSE Head(s) + SumOf(Tail(s))

\* C20: calculate_moving_average returns a series as long as its input; at
\* each position i >= w-1 (from 0) its value times w is the sum of the
\* inputs at i-w+1 .. i, and at each position i < w-1 it is undefined.
C20_MovingAverage ==
    (call.op = "calculate_moving_average") =>
        /\ Len(call.value) = Len(args.data_series)
        /\ \A k \in 1..Len(call.value) :
              LET w == args.window_size
              IN  IF k >= w
                  THEN /\ call.value[k].kind = "num"
                       /\ call.value[k].n * w
                             = call.value[k].d * SumOf(SubSeq(args.data_series, k - w + 1, k))
                  ELSE call.value[k] = NaN

\* C20 witness: the moving average of a series that is not constant, with a
\* window of two or more and both undefined and defined positions.
C20_Witness ==
    /\ call.op = "calculate_moving_average"
    /\ args.window_size >= 2 /\ Len(args.data_series) > args.window_size
    /\ \E k \in 1..Len(args.data_series) : args.data_series[k] # args.data_series[1]
    /\ \E k \in 1..Len(call.value) : call.value[k].kind = "num" /\ call.value[k].d # 1

----------------------------------------------------------------------------
(* Calls of compute_ema *)

InitEMA ==
    /\ \E n \in 0..MaxTrendLen : \E h \in FlatHistories(n, 1..MaxClose) :
       \E columns \in {OHLCV, OHLCV \ {"Close"}} :
          data = MakeTable(columns, h)
    /\ call = NoCall
    /\ \E window \in (-1)..MaxWindow : args = [window |-> window, column |-> "Close"]
    /\ StoreUnused

\* stock_data[column] is evaluated first, then .ewm(span=window), then .mean().
call_compute_ema ==
    /\ call.op = "none"
    /\ call' = IF compute_ema_raises(data, args.column)
                  THEN [op |-> "compute_ema", outcome |-> KeyError, value |-> NoneValue]
               ELSE IF ewm_raises(args.window)
                  THEN [op |-> "compute_ema", outcome |-> ValueError, value |-> NoneValue]
               ELSE [op |-> "compute_ema", outcome |-> "returned",
                     value |-> SeriesValue(compute_ema(data, args.window, args.column))]
    /\ UNCHANGED <<data, args, storeVars>>

NextEMA == call_compute_ema

SpecEMA == InitEMA /\ [][NextEMA]_vars

\* C21: for every series x and window w >= 1, compute_ema returns a series
\* as long as x with no undefined position, EMA[0] = x[0] and
\* EMA[i] = a * x[i] + (1 - a) * EMA[i-1] with a = 2 / (w + 1), stated here as
\* (w + 1) * EMA[i] = 2 * x[i] + (w - 1) * EMA[i-1]; a window below 1 is
\* rejected with an error instead of producing a series.
C21_EMARecursion ==
    (call.op = "compute_ema" /\ args.column \in data.columns) =>
        LET x == column_series(data, args.column)
            w == args.window
            EMA == call.value.series
        IN  IF w >= 1
            THEN /\ call.outcome = "returned"
                 /\ ~call.value.none
                 /\ Len(EMA) = Len(x)
                 /\ \A k \in 1..Len(x) : EMA[k].kind = "num"
                 /\ Len(x) > 0 => EMA[1] = x[1]
                 /\ \A k \in 2..Len(x) :
                       FMul(Float(w + 1), EMA[k]) =
                          FAdd(FMul(Float(2), x[k]), FMul(Float(w - 1), EMA[k - 1]))
            ELSE call.outcome \in {ValueError, KeyError, TypeError} /\ call.value.none

\* A series of three or more unequal prices smoothed with a window above 1,
\* whose EMA differs from the series itself.
C21_Witness ==
    /\ call.op = "compute_ema"
    /\ call.outcome = "returned"
    /\ args.window > 1
    /\ Len(call.value.series) >= 3
    /\ \E k \in 2..Len(call.value.series) :
          call.value.series[k] # column_series(data, args.column)[k]

----------------------------------------------------------------------------
(* The predicates on every bar of the price grid *)

\* Bars without shadows, with every volume.
VolumeBodyBars ==
    {Bar(o, Max2(o, c), Min2(o, c), c, v) : o \in Prices, c \in Prices, v \in 1..MaxVolume}

\* Complete dicts: any bar after a bar without shadows, under either trend
\* flag, or three bars without shadows as a window.
InitCandles ==
    /\ \/ \E day \in DayBars : \E prev_day \in VolumeBodyBars : \E trend \in BOOLEAN :
             args = [first |-> FlatBar(0), prev_day |-> prev_day, day |-> day,
                     trend |-> trend]
       \/ \E first \in BodyBars : \E prev_day \in BodyBars : \E day \in BodyBars :
             args = [first |-> first, prev_day |-> prev_day, day |-> day,
                     trend |-> FALSE]
    /\ call = NoCall
    /\ data = NoData
    /\ StoreUnused

SpecCandles == InitCandles /\ [][NextPredicates]_vars

\* The shadows and body of a complete bar.
BodyOf(day) == Abs(day.Close - day.Open)

UpperShadowOf(day) == day.High - Max2(day.Open, day.Close)

LowerShadowOf(day) == Min2(day.Open, day.Close) - day.Low

\* C22 (as claimed): is_hanging_man and is_shooting_star each return true only
\* when the uptrend flag is true and the bar opens strictly below the previous
\* bar's Close; Hanging Man also requires lower shadow >= 2 * body and upper
\* shadow <= 3 * body, Shooting Star upper shadow >= 2 * body with a small body.
C22_OpensBelowPreviousClose ==
    (call.op \in {"is_hanging_man", "is_shooting_star"} /\ call.outcome = "True") =>
        /\ args.trend
        /\ args.day.Open < args.prev_day.Close
        /\ call.op = "is_hanging_man" =>
              /\ LowerShadowOf(args.day) >= 2 * BodyOf(args.day)
              /\ UpperShadowOf(args.day) <= 3 * BodyOf(args.day)
        /\ call.op = "is_shooting_star" =>
              /\ UpperShadowOf(args.day) >= 2 * BodyOf(args.day)
              /\ 2 * BodyOf(args.day) < args.day.High - args.day.Low

\* C23 (as claimed): is_evening_star is true for a three-bar window only if
\* the first bar is bullish, the middle bar is small-bodied (body at most a
\* tenth of the first bar's range, as in is_morning_star) or a doji, and the
\* third bar is bearish and closes below the midpoint of the first bar's body.
C23_EveningStarMirrorsMorningStar ==
    (call.op = "is_evening_star" /\ call.outcome = "True") =>
        /\ is_bullish(args.first.Open, args.first.Close)
        /\ \/ BodyOf(args.prev_day) * 10 <= args.first.High - args.first.Low
           \/ is_doji(args.prev_day)
        /\ is_bearish(args.day.Open, args.day.Close)
        /\ 2 * args.day.Close < args.first.Open + args.first.Close

\* C24 (as claimed): is_three_black_crows is true only if all three bars are
\* bearish and their Closes are strictly decreasing; is_three_white_soldiers
\* is true only if all three bars are bullish and their Closes are strictly
\* increasing.
C24_ClosesStrictlyOrdered ==
    LET d == <<args.first, args.prev_day, args.day>>
    IN  /\ (call.op = "is_three_black_crows" /\ call.outcome = "True") =>
              /\ \A k \in 1..3 : d[k].Close < d[k].Open
              /\ d[1].Close > d[2].Close /\ d[2].Close > d[3].Close
        /\ (call.op = "is_three_white_soldiers" /\ call.outcome = "True") =>
              /\ \A k \in 1..3 : d[k].Close > d[k].Open
              /\ d[1].Close < d[2].Close /\ d[2].Close < d[3].Close

VolumePredicates ==
    {"is_engulfing_with_volume", "is_doji_with_volume", "is_hammer_with_volume",
     "is_shooting_star_with_volume"}

\* The predicate a volume-confirmed predicate confirms, on the same arguments.
BasePredicate(name, variant, a) ==
    CASE name = "is_engulfing_with_volume" /\ variant = "bullish" ->
            is_bullish_engulfing(a.day, a.prev_day)
      [] name = "is_engulfing_with_volume" /\ variant = "bearish" ->
            is_bearish_engulfing(a.day, a.prev_day)
      [] name = "is_doji_with_volume" /\ variant = "standard" -> is_doji(a.day)
      [] name = "is_doji_with_volume" /\ variant = "long_legged" -> is_long_legged(a.day)
      [] name = "is_doji_with_volume" /\ variant = "gravestone" -> is_gravestone(a.day)
      [] name = "is_doji_with_volume" /\ variant = "dragonfly" -> is_dragonfly(a.day)
      [] name = "is_hammer_with_volume" -> is_hammer(a.day, a.trend, 1)
      [] name = "is_shooting_star_with_volume" ->
            is_shooting_star(a.day, a.prev_day, a.trend)

\* C25: on bars that carry Open, High, Low, Close and Volume, each
\* volume-confirmed predicate (is_engulfing_with_volume, is_doji_with_volume,
\* is_hammer_with_volume, is_shooting_star_with_volume) is true exactly when
\* its base predicate is true on the same arguments and the current bar's
\* Volume is strictly greater than the previous bar's Volume; equal volumes
\* give false.
C25_VolumeConfirmation ==
    call.op \in VolumePredicates =>
        call.outcome = Outcome(/\ BasePredicate(call.op, call.variant, args)
                               /\ args.day.Volume > args.prev_day.Volume)

\* A bullish engulfing on equal volumes, which the volume-confirmed predicate
\* turns down.
C25_Witness ==
    /\ call.op = "is_engulfing_with_volume"
    /\ call.variant = "bullish"
    /\ is_bullish_engulfing(args.day, args.prev_day)
    /\ args.day.Volume = args.prev_day.Volume
    /\ call.outcome = "False"

----------------------------------------------------------------------------
(* The registry's symbols across calls *)

\* companies_id_store of the registry, empty before the registry exists.
companies_id_store == IF cls.store = 0 THEN {} ELSE heap[cls.store].companies

\* C26 (as claimed): a symbol in companies_id_store stays there across later
\* get_store() / CompaniesStore() calls by any thread until
\* remove_company_id removes it: no other step takes a symbol out.
C26_SymbolsPersist ==
    [][\A id \in Symbols :
          (/\ id \in companies_id_store
           /\ ~(\E t \in Threads : remove_call(t) /\ th[t].stock_id = id))
             => id \in companies_id_store']_vars

----------------------------------------------------------------------------
(* The labels recognize_patterns can assign *)

\* The Pattern values recognize_patterns leaves in table d.
LabelsAssigned(d) ==
    LET r == recognize_result(d).data
    IN  {r.rows[k].Pattern : k \in 1..NumRows(r)}

\* C27 (as claimed): every one of the sixteen labels of the precedence list
\* is assigned by recognize_patterns to some position of some table; in
\* particular 'Bullish Engulfing with Volume', 'Bearish Engulfing with
\* Volume', 'Hammer with Volume' and 'Shooting Star with Volume' are. Stated
\* of the tables the recognizer is constructed with here.
C27_EveryLabelAssignable ==
    call.op = "recognize_patterns" =>
        \A k \in 1..Len(Precedence) :
            SomeRecognizerTable(LAMBDA d : Precedence[k] \in LabelsAssigned(d))

----------------------------------------------------------------------------
(* The two trends of one position *)

\* C28 (as claimed): for every Close series, index i and lookback N >= 1,
\* is_uptrend(i, N) and is_downtrend(i, N) are never both true.
C28_TrendsExclusive ==
    /\ (call.op = "is_downtrend" /\ call.outcome = "True")
          => ~is_uptrend(data, call.index, call.lookback_period)
    /\ (call.op = "is_uptrend" /\ call.outcome = "True")
          => ~is_downtrend(data, call.index, call.lookback_period)

----------------------------------------------------------------------------
(* The two signals of one position *)

\* The indicator columns whose value at a row may be undefined (NaN).
IndicatorColumns ==
    {"MACD", "Signal_Line", "Bollinger_Upper", "Bollinger_Mid", "Bollinger_Lower", "RSI"}

UndefinedAt(r) == \E f \in IndicatorColumns : r[f].kind = "nan"

\* C29: in the table apply_strategy returns, Buy_Signal and Sell_Signal are
\* never both true at the same position, and both are false wherever MACD,
\* Signal_Line, a Bollinger band or RSI is undefined.
C29_SignalsExclusive ==
    (call.op = "apply_strategy" /\ call.outcome = "returned"
        /\ "Buy_Signal" \in data.columns) =>
        \A k \in 1..NumRows(data) :
            LET r == data.rows[k]
            IN  /\ ~(r.Buy_Signal /\ r.Sell_Signal)
                /\ UndefinedAt(r) => (~r.Buy_Signal /\ ~r.Sell_Signal)

\* C29 witness: a returned table with a position whose bands are defined, whose
\* MACD is above its Signal_Line and whose RSI is undefined, a position with
\* every indicator defined and Buy_Signal alone, and one with Sell_Signal alone.
C29_Witness ==
    /\ call.op = "apply_strategy" /\ call.outcome = "returned"
    /\ "Buy_Signal" \in data.columns
    /\ \E k \in 1..NumRows(data) :
          /\ data.rows[k].RSI.kind = "nan"
          /\ data.rows[k].Bollinger_Lower.kind = "band"
          /\ FGt(data.rows[k].MACD, data.rows[k].Signal_Line)
          /\ ~data.rows[k].Buy_Signal
    /\ \E k \in 1..NumRows(data) :
          ~UndefinedAt(data.rows[k]) /\ data.rows[k].Buy_Signal /\ ~data.rows[k].Sell_Signal
    /\ \E k \in 1..NumRows(data) :
          ~UndefinedAt(data.rows[k]) /\ data.rows[k].Sell_Signal /\ ~data.rows[k].Buy_Signal

----------------------------------------------------------------------------
(* Repeated runs of recognize_patterns *)

SixteenLabels == {Precedence[k] : k \in 1..Len(Precedence)}

\* C30: a run of recognize_patterns leaves in every row a Pattern that is
\* None or one of the sixteen labels of the precedence list, never
\* 'Piercing Line'; it leaves the Open, High, Low, Close and Volume columns as
\* they were; and a run on the result of a run leaves the same Pattern column.
C30_LabelsStable ==
    [][call'.op = "recognize_patterns" =>
          /\ data'.columns = data.columns \cup {"Pattern"}
          /\ NumRows(data') = NumRows(data)
          /\ \A k \in 1..NumRows(data) :
                /\ \A f \in data.columns \ {"Pattern"} :
                      data'.rows[k][f] = data.rows[k][f]
                /\ data'.rows[k].Pattern \in SixteenLabels \cup {None}
                /\ data'.rows[k].Pattern # "Piercing Line"
                /\ call.op = "recognize_patterns" =>
                      data'.rows[k].Pattern = data.rows[k].Pattern]_vars

\* C30 witness: a second run has returned on a table with a labelled position
\* and with a position where is_piercing_line holds.
C30_Witness ==
    /\ call.op = "recognize_patterns" /\ call.outcome = "returned" /\ call.runs = 2
    /\ \E i \in 2..(NumRows(data) - 1) : LabelAt(i) # None
    /\ \E i \in 2..(NumRows(data) - 1) :
          /\ is_piercing_line(Row(data, i), Row(data, i - 1))
          /\ LabelAt(i) # "Piercing Line"

====
